---- MODULE Spec2Model ----
(***************************************************************************)
(* The concurrency-safe catalog writer of the savorswipe backend:          *)
(* batch_to_s3_atomic (upload.py), delete_recipe_atomic                    *)
(* (recipe_deletion.py) and the image-update retry loop of                 *)
(* handle_post_image_request (lambda_function.py), racing on the catalog   *)
(* document jsondata/combined_data.json and the embedding index            *)
(* jsondata/recipe_embeddings.json of an object store that offers          *)
(* single-object conditional writes (If-Match on an ETag).                 *)
(***************************************************************************)
EXTENDS Integers, Sequences, FiniteSets, TLC

VARIABLES
    cat,    \* the catalog object: [exists, doc, ver, ever, scheme]
    emb,    \* the embedding-index object: [exists, doc, ver, ever, scheme]
    now,    \* the wall clock read by datetime.now()
    w,      \* batch_to_s3_atomic invocations, one per writer
    d,      \* the delete_recipe_atomic invocation
    u,      \* the handle_post_image_request invocation
    a,      \* the EmbeddingStore.add_embeddings invocations, one per caller
    leg,    \* the upload.to_s3 invocation
    dd      \* the DuplicateDetector and the call made on it

vars == <<cat, emb, now, w, d, u, a, leg, dd>>

(***************************************************************************)
(* Bounds of the model.                                                    *)
(***************************************************************************)
MaxBatch == 3      \* longest candidate list handed to batch_to_s3_atomic
MaxCalls == 3      \* delete_recipe_atomic calls made one after the other
MaxAddCalls == 3   \* add_embeddings calls made one after the other
MaxMixed == 2      \* longest candidate list of a batch write racing with the others
MaxRecipes == 2    \* most recipes of an upload request
MaxIndex == 2      \* most entries of the index a DuplicateDetector is given

(***************************************************************************)
(* Program constants.                                                      *)
(***************************************************************************)
MAX_RETRIES == 3        \* upload.batch_to_s3_atomic
DEL_MAX_RETRIES == 3    \* recipe_deletion.delete_recipe_atomic
IMG_MAX_RETRIES == 3    \* lambda_function.handle_post_image_request
EMB_MAX_RETRIES == 3    \* embeddings.EmbeddingStore.MAX_RETRIES

Writers == {"w1", "w2"}

(***************************************************************************)
(* Strings.  A title is a sequence of one-character strings so that        *)
(* str.lower() and str.strip() can be computed character by character.     *)
(***************************************************************************)
UpperChars == <<"S", "O", "U", "P", "T", "E", "W", "A", "L", "D">>
LowerChars == <<"s", "o", "u", "p", "t", "e", "w", "a", "l", "d">>
Whitespace == {" ", "\t"}

\* str.lower() on one character
LowerChar(c) ==
    IF \E i \in 1..Len(UpperChars) : UpperChars[i] = c
    THEN LowerChars[CHOOSE i \in 1..Len(UpperChars) : UpperChars[i] = c]
    ELSE c

\* str.lower()
Lower(s) == [i \in 1..Len(s) |-> LowerChar(s[i])]

\* str.strip(): drop leading and trailing whitespace
RECURSIVE LStrip(_)
LStrip(s) ==
    IF s # <<>> /\ Head(s) \in Whitespace THEN LStrip(Tail(s)) ELSE s

RECURSIVE RStrip(_)
RStrip(s) ==
    IF s # <<>> /\ s[Len(s)] \in Whitespace
    THEN RStrip(SubSeq(s, 1, Len(s) - 1))
    ELSE s

Strip(s) == RStrip(LStrip(s))

\* a plausible slip: compare titles without normalizing them
normalize_title_raw(title) == title

\* upload.normalize_title: title.lower().strip()
normalize_title(title) == Strip(Lower(title))

\* str(n) for a non-negative int
Digits == <<"0", "1", "2", "3", "4", "5", "6", "7", "8", "9">>

RECURSIVE str(_)
str(n) ==
    IF n < 10 THEN Digits[n + 1]
    ELSE str(n \div 10) \o Digits[(n % 10) + 1]

(***************************************************************************)
(* dicts: functions with a finite domain.                                  *)
(***************************************************************************)
EmptyDict == <<>>

\* dict[k] = v
DictSet(f, k, v) ==
    [x \in (DOMAIN f) \cup {k} |-> IF x = k THEN v ELSE f[x]]

\* dict.pop(k) on a copy
DictPop(f, k) == [x \in (DOMAIN f) \ {k} |-> f[x]]

(***************************************************************************)
(* Recipes and the inputs of the model.                                    *)
(***************************************************************************)
Soup    == <<"S", "o", "u", "p">>
SoupWs  == <<" ", " ", "S", "O", "U", "P", " ", " ">>
Stew    == <<"S", "t", "e", "w">>
Salad   == <<"S", "a", "l", "a", "d">>
Dal     == <<"D", "a", "l">>
StewLc  == <<"s", "t", "e", "w", " ">>
Tea     == <<"T", "e", "a">>

TitlePool == {Soup, SoupWs, Stew, Tea}
SoupPool  == {Soup, SoupWs}

Urls == <<"u1", "u2">>

\* what the caller may pass as one entry of search_results_list
SearchResults == {<<>>, Urls}

\* a recipe dict; key = 0, uploadedAt = 0 and image_url = "" stand for an
\* absent field, Ingredients is the opaque payload of the recipe
Recipe(title, payload) ==
    [Title |-> title, Ingredients |-> payload, key |-> 0,
     image_search_results |-> <<>>, uploadedAt |-> 0, image_url |-> ""]

Stored(title, payload, k) ==
    [Recipe(title, payload) EXCEPT !.key = k, !.image_search_results = Urls,
                                   !.uploadedAt = 0]

\* sequences over S of length at most n
SeqUpTo(S, n) == UNION {[1..m -> S] : m \in 0..n}

\* the catalog documents the runs start from: no document yet, and a
\* catalog with the gaps that two deletions left
SparseDoc ==
    [k \in {"1", "2", "5"} |->
        CASE k = "1" -> Stored(Salad, <<"init", 1>>, 1)
          [] k = "2" -> Stored(Dal, <<"init", 2>>, 2)
          [] k = "5" -> Stored(StewLc, <<"init", 5>>, 5)]

SparseIndex == [k \in {"1", "2", "5"} |-> <<1, 0>>]

\* How the store derives an object's ETag is the store's business: a token
\* that changes on every accepted write ("counter"), or a digest of the
\* body, so that a write of an identical body keeps the token ("md5").
ETagSchemes == {"counter", "md5"}

\* ever is history: the keys the object has held at any time
Absent(scheme) ==
    [exists |-> FALSE, doc |-> EmptyDict, ver |-> 0, ever |-> {},
     scheme |-> scheme]

\* an object that holds body under the given scheme
Holding(body, scheme) ==
    [exists |-> TRUE, doc |-> body, ver |-> 1, ever |-> DOMAIN body,
     scheme |-> scheme]

(***************************************************************************)
(* batch_to_s3_atomic: the per-attempt processing of the candidates        *)
(* (upload.py 322-389).  st carries the locals of the attempt:             *)
(* existing_data, recipes, success_keys, position_to_key, errors, next_key *)
(***************************************************************************)
DuplicateTitle == "Recipe title already exists"
NoImages       == "No image search results available"

\* a plausible slip: the key is one past the largest key, not the count
HighestKeyMax(existing_data) ==
    IF DOMAIN existing_data = {} THEN 0
    ELSE CHOOSE n \in 1..99 :
            /\ str(n) \in DOMAIN existing_data
            /\ \A m \in (n + 1)..99 : str(m) \notin DOMAIN existing_data

\* highest_key (upload.py 322-328)
HighestKey(existing_data) ==
    IF DOMAIN existing_data # {} THEN Cardinality(DOMAIN existing_data) ELSE 0

\* a plausible slip: titles compared as written
IsDuplicateRaw(existing_data, title) ==
    \E k \in DOMAIN existing_data :
        normalize_title_raw(existing_data[k].Title) = normalize_title_raw(title)

\* the duplicate-title scan (upload.py 341-349)
IsDuplicate(existing_data, title) ==
    \E k \in DOMAIN existing_data :
        normalize_title(existing_data[k].Title) = normalize_title(title)

ErrorOf(file_idx, title, reason) ==
    [file |-> file_idx, title |-> title, reason |-> reason]

\* a plausible slip: a rejected candidate advances the key counter too
ProcessRecipeSkipKey(st, file_idx, search_results_list, clock) ==
    LET recipe == st.recipes[file_idx + 1]
        title == recipe.Title
        search_results ==
            IF file_idx < Len(search_results_list)
            THEN search_results_list[file_idx + 1] ELSE <<>>
        stamped == [recipe EXCEPT !.key = st.next_key,
                                  !.image_search_results = search_results,
                                  !.uploadedAt = clock]
    IN  IF IsDuplicate(st.existing_data, title)
        THEN [st EXCEPT !.errors = Append(@, ErrorOf(file_idx, title, DuplicateTitle)),
                        !.next_key = @ + 1]
        ELSE IF Len(search_results) > 0
        THEN [st EXCEPT
                !.recipes[file_idx + 1] = stamped,
                !.existing_data = DictSet(@, str(st.next_key), stamped),
                !.success_keys = Append(@, str(st.next_key)),
                !.position_to_key = DictSet(@, file_idx, str(st.next_key)),
                !.next_key = @ + 1]
        ELSE [st EXCEPT !.errors = Append(@, ErrorOf(file_idx, title, NoImages)),
                        !.next_key = @ + 1]

\* one iteration of the loop over enumerate(recipes) (upload.py 337-386)
ProcessRecipe(st, file_idx, search_results_list, clock) ==
    LET recipe == st.recipes[file_idx + 1]
        title == recipe.Title
        search_results ==
            IF file_idx < Len(search_results_list)
            THEN search_results_list[file_idx + 1] ELSE <<>>
        stamped == [recipe EXCEPT !.key = st.next_key,
                                  !.image_search_results = search_results,
                                  !.uploadedAt = clock]
    IN  IF IsDuplicate(st.existing_data, title)
        THEN [st EXCEPT !.errors = Append(@, ErrorOf(file_idx, title, DuplicateTitle))]
        ELSE IF Len(search_results) > 0
        THEN [st EXCEPT
                !.recipes[file_idx + 1] = stamped,
                !.existing_data = DictSet(@, str(st.next_key), stamped),
                !.success_keys = Append(@, str(st.next_key)),
                !.position_to_key = DictSet(@, file_idx, str(st.next_key)),
                !.next_key = @ + 1]
        ELSE [st EXCEPT !.errors = Append(@, ErrorOf(file_idx, title, NoImages))]

\* a plausible slip: the first rejected candidate ends the loop
RECURSIVE ProcessFromAbort(_, _, _, _)
ProcessFromAbort(st, file_idx, search_results_list, clock) ==
    IF file_idx >= Len(st.recipes) \/ st.errors # <<>> THEN st
    ELSE ProcessFromAbort(ProcessRecipe(st, file_idx, search_results_list, clock),
                          file_idx + 1, search_results_list, clock)

\* the loop over enumerate(recipes) (upload.py 337-386)
RECURSIVE ProcessFrom(_, _, _, _)
ProcessFrom(st, file_idx, search_results_list, clock) ==
    IF file_idx >= Len(st.recipes) THEN st
    ELSE ProcessFrom(ProcessRecipe(st, file_idx, search_results_list, clock),
                     file_idx + 1, search_results_list, clock)

\* the locals at the top of the loop (upload.py 330-334)
AttemptLocals(existing_data, recipes) ==
    [existing_data |-> existing_data, recipes |-> recipes,
     success_keys |-> <<>>, position_to_key |-> EmptyDict, errors |-> <<>>,
     next_key |-> HighestKey(existing_data) + 1]

\* one attempt's processing of the whole candidate list (upload.py 322-389)
ProcessBatch(existing_data, recipes, search_results_list, clock) ==
    ProcessFrom(AttemptLocals(existing_data, recipes), 0, search_results_list, clock)

(***************************************************************************)
(* The object store: GET returns the body and its ETag, PUT replaces the   *)
(* whole body and is refused with PreconditionFailed when an If-Match      *)
(* condition names another version than the current one.                   *)
(***************************************************************************)
\* etag = None (the load found no document)
NoEtag == [some |-> FALSE, n |-> 0, body |-> EmptyDict]

\* response['ETag'] of get_object, None on NoSuchKey
EtagOf(obj) ==
    IF ~obj.exists THEN NoEtag
    ELSE IF obj.scheme = "md5"
         THEN [some |-> TRUE, n |-> 0, body |-> obj.doc]
         ELSE [some |-> TRUE, n |-> obj.ver, body |-> EmptyDict]

\* the parsed body of get_object, {} on NoSuchKey
BodyOf(obj) == IF obj.exists THEN obj.doc ELSE EmptyDict

\* a plausible slip: no write is conditional
PutAcceptedAlways(obj, etag) == TRUE

\* put_object(**params) is accepted: no IfMatch in params, or it matches
PutAccepted(obj, etag) == etag = NoEtag \/ (obj.exists /\ EtagOf(obj) = etag)

\* the object after an accepted put_object
PutResult(obj, body) ==
    [exists |-> TRUE, doc |-> body, ver |-> obj.ver + 1,
     ever |-> obj.ever \cup DOMAIN body, scheme |-> obj.scheme]

(***************************************************************************)
(* batch_to_s3_atomic (upload.py 273-436)                                  *)
(***************************************************************************)
IdleWriter ==
    [pc |-> "idle", recipes |-> <<>>, given |-> <<>>, search_results_list |-> <<>>,
     attempt |-> 0, etag |-> NoEtag, loaded |-> EmptyDict, clock |-> 0,
     existing_data |-> EmptyDict, success_keys |-> <<>>,
     position_to_key |-> EmptyDict, errors |-> <<>>,
     loads |-> 0, saves |-> 0, sleeps |-> 0, puts |-> 0, faults |-> 0,
     new_embeddings |-> EmptyDict, file_errors |-> <<>>,
     status |-> 0, message |-> "", success_count |-> 0, fail_count |-> 0]

\* the argument pairs (recipes' titles, search_results_list) of a call:
\* search_results_list may be shorter than recipes
RichBatches ==
    {<<titles, srl>> : titles \in SeqUpTo(TitlePool, MaxBatch),
                       srl \in SeqUpTo(SearchResults, MaxBatch)}

\* argument pairs in which every recipe comes with its search results
FullBatches(pool, n) ==
    {<<titles, [p \in 1..Len(titles) |-> Urls]>> : titles \in SeqUpTo(pool, n)}

\* a plausible slip: the recipes are written one put at a time
PutBodyPartial(st) ==
    IF st.success_keys = <<>> THEN st.existing_data
    ELSE DictPop(st.existing_data, st.success_keys[Len(st.success_keys)])

\* the body handed to put_object (upload.py 394-401)
PutBody(st) == st.existing_data

\* a plausible slip: one attempt too few
RetriesLeftShort(attempt) == attempt < MAX_RETRIES - 2

\* if attempt < MAX_RETRIES - 1 (upload.py 420)
RetriesLeft(attempt) == attempt < MAX_RETRIES - 1

\* a plausible slip: the key counter is computed once, from the first load
AttemptStaleCounter(self, obj, clock) ==
    LET existing_data == BodyOf(obj)
        locals == AttemptLocals(existing_data, self.recipes)
        st == ProcessFrom(
                [locals EXCEPT !.next_key =
                    IF self.loads > 0 THEN HighestKey(self.loaded) + 1 ELSE @],
                0, self.search_results_list, clock)
    IN  [self EXCEPT
            !.pc = IF st.success_keys # <<>> THEN "save" ELSE "done",
            !.etag = EtagOf(obj),
            !.loaded = existing_data,
            !.clock = clock,
            !.recipes = st.recipes,
            !.existing_data = st.existing_data,
            !.success_keys = st.success_keys,
            !.position_to_key = st.position_to_key,
            !.errors = st.errors,
            !.loads = @ + 1]

\* a plausible slip: the save is attempted also when nothing was accepted
AttemptAlwaysSave(self, obj, clock) ==
    LET existing_data == BodyOf(obj)
        st == ProcessBatch(existing_data, self.recipes,
                           self.search_results_list, clock)
    IN  [self EXCEPT
            !.pc = "save",
            !.etag = EtagOf(obj),
            !.loaded = existing_data,
            !.clock = clock,
            !.recipes = st.recipes,
            !.existing_data = st.existing_data,
            !.success_keys = st.success_keys,
            !.position_to_key = st.position_to_key,
            !.errors = st.errors,
            !.loads = @ + 1]

\* a plausible slip: an attempt in which every candidate was rejected is
\* repeated like a conflicting one
AttemptRetryOnReject(self, obj, clock) ==
    LET existing_data == BodyOf(obj)
        st == ProcessBatch(existing_data, self.recipes,
                           self.search_results_list, clock)
        again == st.success_keys = <<>> /\ st.errors # <<>>
                     /\ RetriesLeft(self.attempt)
    IN  [self EXCEPT
            !.pc = IF st.success_keys # <<>> THEN "save"
                   ELSE IF again THEN "load" ELSE "done",
            !.attempt = IF again THEN @ + 1 ELSE @,
            !.etag = EtagOf(obj),
            !.loaded = existing_data,
            !.clock = clock,
            !.recipes = st.recipes,
            !.existing_data = st.existing_data,
            !.success_keys = st.success_keys,
            !.position_to_key = st.position_to_key,
            !.errors = st.errors,
            !.loads = @ + 1]

\* a plausible slip: the ETag is read once, by the first load of the call
AttemptStaleEtag(self, obj, clock) ==
    LET existing_data == BodyOf(obj)
        st == ProcessBatch(existing_data, self.recipes,
                           self.search_results_list, clock)
    IN  [self EXCEPT
            !.pc = IF st.success_keys # <<>> THEN "save" ELSE "done",
            !.etag = IF self.loads > 0 THEN @ ELSE EtagOf(obj),
            !.loaded = existing_data,
            !.clock = clock,
            !.recipes = st.recipes,
            !.existing_data = st.existing_data,
            !.success_keys = st.success_keys,
            !.position_to_key = st.position_to_key,
            !.errors = st.errors,
            !.loads = @ + 1]

\* get_object, then the processing of the candidates; with nothing accepted
\* the call returns without a write (upload.py 306-389, 429-432)
Attempt(self, obj, clock) ==
    LET existing_data == BodyOf(obj)
        st == ProcessBatch(existing_data, self.recipes,
                           self.search_results_list, clock)
    IN  [self EXCEPT
            !.pc = IF st.success_keys # <<>> THEN "save" ELSE "done",
            !.etag = EtagOf(obj),
            !.loaded = existing_data,
            !.clock = clock,
            !.recipes = st.recipes,
            !.existing_data = st.existing_data,
            !.success_keys = st.success_keys,
            !.position_to_key = st.position_to_key,
            !.errors = st.errors,
            !.loads = @ + 1]

\* the call: the caller hands over the candidate list and the search
\* results, and the first attempt loads the catalog (upload.py 297-389)
Start(i, batches) ==
    /\ w[i].pc = "idle"
    /\ \E b \in batches :
         LET titles == b[1]
             recipes == [p \in 1..Len(titles) |-> Recipe(titles[p], <<i, p - 1>>)]
         IN  /\ Len(b[2]) <= Len(titles)
             /\ w' = [w EXCEPT ![i] = Attempt([IdleWriter EXCEPT
                        !.recipes = recipes, !.given = recipes,
                        !.search_results_list = b[2]], cat, now)]
    /\ UNCHANGED <<cat, emb, now, d, u, a, leg, dd>>

\* a later attempt: reload and process again (upload.py 304-389)
Load(i) ==
    /\ w[i].pc = "load"
    /\ w' = [w EXCEPT ![i] = Attempt(@, cat, now)]
    /\ UNCHANGED <<cat, emb, now, d, u, a, leg, dd>>

\* put_object succeeds: the call returns (upload.py 408-412)
SaveOk(i) ==
    /\ w[i].pc = "save"
    /\ PutAccepted(cat, w[i].etag)
    /\ cat' = PutResult(cat, PutBody(w[i]))
    /\ w' = [w EXCEPT ![i] = [@ EXCEPT !.pc = "done", !.saves = @ + 1,
                                        !.puts = @ + 1]]
    /\ UNCHANGED <<emb, now, d, u, a, leg, dd>>

\* PreconditionFailed with attempts left: sleep, then the next attempt
\* (upload.py 414-424)
SaveConflictRetry(i) ==
    /\ w[i].pc = "save"
    /\ ~PutAccepted(cat, w[i].etag)
    /\ RetriesLeft(w[i].attempt)
    /\ w' = [w EXCEPT ![i] = [@ EXCEPT !.pc = "load", !.attempt = @ + 1,
                                        !.saves = @ + 1, !.sleeps = @ + 1]]
    /\ now' = now + 1
    /\ UNCHANGED <<cat, emb, d, u, a, leg, dd>>

\* PreconditionFailed on the last attempt: the loop ends and the call raises
\* "max retries exceeded" (upload.py 414-420, 434-436)
SaveConflictRaise(i) ==
    /\ w[i].pc = "save"
    /\ ~PutAccepted(cat, w[i].etag)
    /\ ~RetriesLeft(w[i].attempt)
    /\ w' = [w EXCEPT ![i] = [@ EXCEPT !.pc = "raised", !.saves = @ + 1]]
    /\ UNCHANGED <<cat, emb, now, d, u, a, leg, dd>>

\* a plausible slip: any store error is retried like a conflict
FaultAsConflict(self) ==
    [self EXCEPT !.pc = "load", !.attempt = @ + 1, !.sleeps = @ + 1]

\* raise: the error of the store leaves the call, whose locals are gone
\* (upload.py 318-320, 425-428)
FaultOutcome(self) ==
    [IdleWriter EXCEPT !.pc = "faulted", !.attempt = self.attempt,
                       !.loads = self.loads, !.saves = self.saves,
                       !.sleeps = self.sleeps, !.puts = self.puts,
                       !.faults = self.faults]

\* get_object fails with an error other than NoSuchKey, in the first
\* attempt (of a call made on its own, or by the upload handler) or in a
\* later attempt (upload.py 307-320)
LoadFault(i) ==
    /\ w[i].pc \in {"idle", "call", "load"}
    /\ w' = [w EXCEPT ![i] = FaultOutcome([@ EXCEPT !.loads = @ + 1,
                                                     !.faults = @ + 1])]
    /\ UNCHANGED <<cat, emb, now, d, u, a, leg, dd>>

\* put_object fails with an error other than PreconditionFailed: the store
\* has not applied the write (upload.py 408-428)
SaveFault(i) ==
    /\ w[i].pc = "save"
    /\ w' = [w EXCEPT ![i] = FaultOutcome([@ EXCEPT !.saves = @ + 1,
                                                     !.faults = @ + 1])]
    /\ UNCHANGED <<cat, emb, now, d, u, a, leg, dd>>

\* the caller's timeout ends the invocation between two of its steps
Abandon(i) ==
    /\ w[i].pc \in {"load", "save"}
    /\ w' = [w EXCEPT ![i] = [IdleWriter EXCEPT !.pc = "abandoned",
                                                 !.puts = w[i].puts]]
    /\ UNCHANGED <<cat, emb, now, d, u, a, leg, dd>>

(***************************************************************************)
(* to_s3 (upload.py 68-97): the single-recipe upload.  No handler of       *)
(* lambda_function.py calls it; it writes the catalog without a condition. *)
(***************************************************************************)
IdleLegacy ==
    [pc |-> "idle", recipe |-> Recipe(<<>>, <<>>), search_results |-> <<>>,
     existing_data_json |-> EmptyDict, highest_key |-> 0, result |-> FALSE,
     puts |-> 0]

\* existing_recipe.get('Title') == recipe.get('Title') for some existing
\* recipe: the titles are compared as written (upload.py 76-78)
to_s3_has_title(existing_data_json, recipe) ==
    \E k \in DOMAIN existing_data_json :
        existing_data_json[k].Title = recipe.Title

\* what a caller may pass as jsonData: the parsed form of a JSON text it
\* holds, which need not be what the store holds now
ToS3Snapshots == {EmptyDict, [k \in {"7"} |-> Stored(Dal, <<"init", 7>>, 7)]}

\* the call: without jsonData the catalog is loaded ({} on NoSuchKey), with
\* jsonData no get_object is made and the caller's snapshot is taken; then
\* the title scan and highest_key = len(existing_data_json) + 1
\* (upload.py 68-82)
ToS3Load(titles) ==
    /\ leg.pc = "idle"
    /\ \E title \in titles, search_results \in SearchResults,
          given \in BOOLEAN, jsonData \in ToS3Snapshots :
         LET recipe == Recipe(title, <<"to_s3">>)
             existing_data_json == IF given THEN jsonData ELSE BodyOf(cat)
             self == [IdleLegacy EXCEPT !.recipe = recipe,
                          !.search_results = search_results,
                          !.existing_data_json = existing_data_json]
         IN  leg' = IF to_s3_has_title(existing_data_json, recipe)
                    THEN [self EXCEPT !.pc = "done", !.result = FALSE]
                    ELSE [self EXCEPT !.pc = "image",
                             !.highest_key =
                                 Cardinality(DOMAIN existing_data_json) + 1]
    /\ UNCHANGED <<cat, emb, now, w, d, u, a, dd>>

\* upload_image returns one of the URLs, or None when none of them could
\* be fetched; with a URL the recipe is put under str(highest_key) by a
\* put_object without IfMatch (upload.py 84-97)
ToS3Save ==
    /\ leg.pc = "image"
    /\ \E j \in 0..Len(leg.search_results) :
         IF j = 0
         THEN /\ leg' = [leg EXCEPT !.pc = "done", !.result = FALSE]
              /\ cat' = cat
         ELSE LET recipe == [leg.recipe EXCEPT !.key = leg.highest_key,
                                 !.image_url = leg.search_results[j],
                                 !.uploadedAt = now]
                  updated == DictSet(leg.existing_data_json,
                                     str(leg.highest_key), recipe)
              IN  /\ cat' = PutResult(cat, updated)
                  /\ leg' = [leg EXCEPT !.pc = "done", !.result = TRUE,
                                    !.recipe = recipe,
                                    !.existing_data_json = updated,
                                    !.puts = @ + 1]
    /\ UNCHANGED <<emb, now, w, d, u, a, dd>>

\* get_object fails with an error other than NoSuchKey, or put_object
\* fails: the error leaves to_s3 (upload.py 72, 92)
ToS3Fault ==
    /\ leg.pc \in {"idle", "image"}
    /\ leg' = [IdleLegacy EXCEPT !.pc = "raised", !.puts = leg.puts]
    /\ UNCHANGED <<cat, emb, now, w, d, u, a, dd>>

(***************************************************************************)
(* delete_recipe_atomic (recipe_deletion.py 21-214)                        *)
(***************************************************************************)
CatalogName == "jsondata/combined_data.json"
IndexName   == "jsondata/recipe_embeddings.json"

DelKeys == {"1", "2"}

\* keys of later calls: in the documents, removed before, never there
SeqKeys == {"1", "2", "5", "9"}

\* a plausible slip: the other recipes go with the removed one
delete_recipe_clear(recipe_key, json_data) ==
    IF recipe_key \notin DOMAIN json_data THEN json_data
    ELSE EmptyDict

\* delete_recipe_from_combined_data (recipe_deletion.py 21-44)
delete_recipe_from_combined_data(recipe_key, json_data) ==
    IF recipe_key \notin DOMAIN json_data THEN json_data
    ELSE DictPop(json_data, recipe_key)

\* a plausible slip: an empty dict is returned for a key that is not there
delete_embedding_absent_clears(recipe_key, embeddings) ==
    IF recipe_key \notin DOMAIN embeddings THEN EmptyDict
    ELSE DictPop(embeddings, recipe_key)

\* a plausible slip: the key is popped from the copy and the dict that was
\* passed in is returned
delete_embedding_returns_input(recipe_key, embeddings) == embeddings

\* delete_embedding_from_store (recipe_deletion.py 47-73)
delete_embedding_from_store(recipe_key, embeddings) ==
    IF recipe_key \notin DOMAIN embeddings THEN embeddings
    ELSE DictPop(embeddings, recipe_key)

IdleDeleter ==
    [pc |-> "idle", recipe_key |-> "", attempt |-> 0,
     combined_data |-> EmptyDict, combined_data_etag |-> NoEtag,
     embeddings |-> EmptyDict, embeddings_etag |-> NoEtag,
     ok |-> FALSE, msg |-> "", cat_puts |-> 0, emb_puts |-> 0, sleeps |-> 0,
     calls |-> 0, repeat |-> FALSE, gap |-> FALSE]

\* return (ok, msg): the locals of the call are gone
DelReturn(self, ok, msg) ==
    [IdleDeleter EXCEPT !.pc = "done", !.recipe_key = self.recipe_key,
                        !.attempt = self.attempt, !.ok = ok, !.msg = msg,
                        !.cat_puts = self.cat_puts, !.emb_puts = self.emb_puts,
                        !.sleeps = self.sleeps, !.calls = self.calls,
                        !.repeat = self.repeat, !.gap = self.gap]

\* a plausible slip: after a conflict only the embeddings are loaded again
DelRestartEmbOnly(self) ==
    [self EXCEPT !.pc = "loadEmb", !.attempt = @ + 1, !.sleeps = @ + 1]

\* a plausible slip: a while loop whose counter is not advanced
DelRestartSameAttempt(self) ==
    [self EXCEPT !.pc = "loadCat", !.sleeps = @ + 1]

\* time.sleep(delay); continue: the next attempt starts at Step 1
\* (recipe_deletion.py 165-169, 195-199)
DelRestart(self) ==
    [self EXCEPT !.pc = "loadCat", !.attempt = @ + 1, !.sleeps = @ + 1]

\* the call and Step 1: load combined_data.json with its ETag
\* (recipe_deletion.py 103-121)
DelStart ==
    /\ d.pc = "idle"
    /\ \E k \in DelKeys :
         d' = [IdleDeleter EXCEPT !.pc = "loadEmb", !.recipe_key = k,
                                  !.combined_data = BodyOf(cat),
                                  !.combined_data_etag = EtagOf(cat),
                                  !.calls = 1]
    /\ UNCHANGED <<cat, emb, now, w, u, a, leg, dd>>

\* the caller deletes again after a call has returned; repeat tells that
\* the key is the one the call before removed, gap that the call before
\* failed with the key out of the catalog and still in the index
DelAgain(keys) ==
    /\ d.pc = "done"
    /\ d.calls < MaxCalls
    /\ \E k \in keys :
         d' = [IdleDeleter EXCEPT !.pc = "loadEmb", !.recipe_key = k,
                                  !.combined_data = BodyOf(cat),
                                  !.combined_data_etag = EtagOf(cat),
                                  !.calls = d.calls + 1,
                                  !.repeat = (d.ok /\ k = d.recipe_key),
                                  !.gap = /\ ~d.ok /\ k = d.recipe_key
                                          /\ d.cat_puts > 0
                                          /\ k \notin DOMAIN BodyOf(cat)
                                          /\ k \in DOMAIN BodyOf(emb)]
    /\ UNCHANGED <<cat, emb, now, w, u, a, leg, dd>>

\* Step 1 of a later attempt (recipe_deletion.py 107-121)
DelLoadCat ==
    /\ d.pc = "loadCat"
    /\ d' = [d EXCEPT !.pc = "loadEmb", !.combined_data = BodyOf(cat),
                      !.combined_data_etag = EtagOf(cat)]
    /\ UNCHANGED <<cat, emb, now, w, u, a, leg, dd>>

\* Step 2: load recipe_embeddings.json with its ETag (recipe_deletion.py 123-137)
DelLoadEmb ==
    /\ d.pc = "loadEmb"
    /\ d' = [d EXCEPT !.pc = "saveCat", !.embeddings = BodyOf(emb),
                      !.embeddings_etag = EtagOf(emb)]
    /\ UNCHANGED <<cat, emb, now, w, u, a, leg, dd>>

\* Steps 3-4: remove the key and write combined_data (recipe_deletion.py 139-173)
DelSaveCat ==
    /\ d.pc = "saveCat"
    /\ IF PutAccepted(cat, d.combined_data_etag)
       THEN /\ cat' = PutResult(cat,
                        delete_recipe_from_combined_data(d.recipe_key, d.combined_data))
            /\ d' = [d EXCEPT !.pc = "saveEmb", !.cat_puts = @ + 1]
            /\ now' = now
       ELSE IF d.attempt < DEL_MAX_RETRIES - 1
       THEN /\ d' = DelRestart(d)
            /\ now' = now + 1
            /\ cat' = cat
       ELSE /\ d' = DelReturn(d, FALSE, "Max retries exceeded updating " \o CatalogName)
            /\ now' = now
            /\ cat' = cat
    /\ UNCHANGED <<emb, w, u, a, leg, dd>>

\* Step 5: write the embeddings (recipe_deletion.py 175-207)
DelSaveEmb ==
    /\ d.pc = "saveEmb"
    /\ IF PutAccepted(emb, d.embeddings_etag)
       THEN /\ emb' = PutResult(emb,
                        delete_embedding_from_store(d.recipe_key, d.embeddings))
            /\ d' = DelReturn([d EXCEPT !.emb_puts = @ + 1], TRUE, "")
            /\ now' = now
       ELSE IF d.attempt < DEL_MAX_RETRIES - 1
       THEN /\ d' = DelRestart(d)
            /\ now' = now + 1
            /\ emb' = emb
       ELSE /\ d' = DelReturn(d, FALSE, "Max retries exceeded updating " \o IndexName)
            /\ now' = now
            /\ emb' = emb
    /\ UNCHANGED <<cat, w, u, a, leg, dd>>

\* the message of a call that a failing store ends: a ClientError is
\* reported with the document it concerns, any other exception by the outer
\* handler (recipe_deletion.py 120-121, 136-137, 172-173, 202-203, 205-208)
DelFaultMessage(pc, client_error) ==
    IF ~client_error THEN "Unexpected error"
    ELSE CASE pc = "loadCat" -> "Error loading " \o CatalogName
           [] pc = "loadEmb" -> "Error loading " \o IndexName
           [] pc = "saveCat" -> "Error writing " \o CatalogName
           [] pc = "saveEmb" -> "Error writing " \o IndexName

\* get_object fails with an error other than NoSuchKey, or put_object with
\* one other than PreconditionFailed, in the first load of the call or
\* later: the call returns (False, message) at once
\* (recipe_deletion.py 103-137, 159-173, 190-208)
DelFault ==
    /\ \E client_error \in BOOLEAN :
         \/ /\ d.pc = "idle"
            /\ \E k \in DelKeys :
                  d' = DelReturn([IdleDeleter EXCEPT !.recipe_key = k,
                                                     !.calls = 1],
                                 FALSE, DelFaultMessage("loadCat", client_error))
         \/ /\ d.pc \in {"loadCat", "loadEmb", "saveCat", "saveEmb"}
            /\ d' = DelReturn(d, FALSE, DelFaultMessage(d.pc, client_error))
    /\ UNCHANGED <<cat, emb, now, w, u, a, leg, dd>>

\* the same in the first load of a call that the caller makes after a call
\* has returned
DelAgainFault(keys) ==
    /\ d.pc = "done"
    /\ d.calls < MaxCalls
    /\ \E k \in keys, client_error \in BOOLEAN :
         d' = DelReturn([IdleDeleter EXCEPT !.recipe_key = k,
                                            !.calls = d.calls + 1],
                        FALSE, DelFaultMessage("loadCat", client_error))
    /\ UNCHANGED <<cat, emb, now, w, u, a, leg, dd>>

(***************************************************************************)
(* EmbeddingStore.add_embeddings (embeddings.py 105-136)                   *)
(***************************************************************************)
\* the new_embeddings of a call: the vector of one new recipe
AddInputs == {[k \in {"4"} |-> <<0, 1>>], [k \in {"6"} |-> <<0, 1>>]}

\* the callers of add_embeddings: every upload request has an
\* EmbeddingStore of its own (lambda_function.py 901), "a1" is a request
\* of which only this call is followed
Adders == Writers \cup {"a1"}

IdleAdder ==
    [pc |-> "idle", new_embeddings |-> EmptyDict, attempt |-> 0,
     merged_embeddings |-> EmptyDict, etag |-> NoEtag, result |-> FALSE,
     loads |-> 0, saves |-> 0, puts |-> 0, sleeps |-> 0, faults |-> 0,
     calls |-> 0]

\* EmbeddingStore.load_embeddings when get_object answers or reports
\* NoSuchKey (embeddings.py 32-57)
load_embeddings(obj) == [embeddings |-> BodyOf(obj), etag |-> EtagOf(obj)]

\* a plausible slip: the ETag is not handed to put_object
save_embeddings_unconditional(obj, embeddings, etag) ==
    [success |-> TRUE, obj |-> PutResult(obj, embeddings)]

\* EmbeddingStore.save_embeddings when put_object answers or reports
\* PreconditionFailed: the return value and the object afterwards
\* (embeddings.py 60-101)
save_embeddings(obj, embeddings, etag) ==
    [success |-> PutAccepted(obj, etag),
     obj |-> IF PutAccepted(obj, etag) THEN PutResult(obj, embeddings) ELSE obj]

\* {**existing_embeddings, **new_embeddings} (embeddings.py 122)
Merge(existing_embeddings, new_embeddings) ==
    [k \in (DOMAIN existing_embeddings) \cup (DOMAIN new_embeddings) |->
        IF k \in DOMAIN new_embeddings THEN new_embeddings[k]
        ELSE existing_embeddings[k]]

\* load_embeddings and the merge (embeddings.py 119-122)
AddAttempt(self, obj) ==
    LET loaded == load_embeddings(obj)
    IN  [self EXCEPT !.pc = "save", !.etag = loaded.etag, !.loads = @ + 1,
                     !.merged_embeddings =
                         Merge(loaded.embeddings, self.new_embeddings)]

\* return: the locals of the call are gone
AddReturn(self, result) ==
    [IdleAdder EXCEPT !.pc = "done", !.new_embeddings = self.new_embeddings,
                      !.attempt = self.attempt, !.result = result,
                      !.loads = self.loads, !.saves = self.saves,
                      !.puts = self.puts, !.sleeps = self.sleeps,
                      !.calls = self.calls]

\* raise: the error of the store leaves add_embeddings (embeddings.py 58, 103)
AddRaise(self) ==
    [IdleAdder EXCEPT !.pc = "raised", !.attempt = self.attempt,
                      !.loads = self.loads, !.saves = self.saves,
                      !.puts = self.puts, !.sleeps = self.sleeps,
                      !.faults = self.faults + 1, !.calls = self.calls]

\* a plausible slip: a sleep follows the last conflict too
AddSleepsAlways(attempt) == TRUE

\* if attempt < self.MAX_RETRIES - 1: sleep (embeddings.py 131-133)
AddSleeps(attempt) == attempt < EMB_MAX_RETRIES - 1

\* for attempt in range(self.MAX_RETRIES): there is a next attempt
\* (embeddings.py 117)
AddLoopContinues(attempt) == attempt + 1 < EMB_MAX_RETRIES

\* a call of the caller's own EmbeddingStore, made when its call before has
\* returned, and the first load of the call
AddCall(j, inputs) ==
    /\ a[j].pc \in {"idle", "done"}
    /\ a[j].calls < MaxAddCalls
    /\ \E ne \in inputs :
         a' = [a EXCEPT ![j] =
                  AddAttempt([IdleAdder EXCEPT !.new_embeddings = ne,
                                               !.calls = a[j].calls + 1], emb)]
    /\ UNCHANGED <<cat, emb, now, w, d, u, leg, dd>>

\* the load of a later attempt (embeddings.py 117-122)
AddLoad(j) ==
    /\ a[j].pc = "load"
    /\ a' = [a EXCEPT ![j] = AddAttempt(a[j], emb)]
    /\ UNCHANGED <<cat, emb, now, w, d, u, leg, dd>>

\* save_embeddings(merged_embeddings, etag) and what follows it
\* (embeddings.py 125-136)
AddSave(j) ==
    /\ a[j].pc = "save"
    /\ LET self == a[j]
           r == save_embeddings(emb, self.merged_embeddings, self.etag)
           slept == [self EXCEPT !.saves = @ + 1,
                        !.sleeps = IF AddSleeps(self.attempt) THEN @ + 1 ELSE @]
       IN  /\ emb' = r.obj
           /\ a' = [a EXCEPT ![j] =
                    IF r.success
                    THEN AddReturn([self EXCEPT !.saves = @ + 1, !.puts = @ + 1], TRUE)
                    ELSE IF AddLoopContinues(self.attempt)
                    THEN [slept EXCEPT !.pc = "load", !.attempt = @ + 1]
                    ELSE AddReturn(slept, FALSE)]
           /\ now' = IF ~r.success /\ AddSleeps(self.attempt) THEN now + 1 ELSE now
    /\ UNCHANGED <<cat, w, d, u, leg, dd>>

\* get_object fails with an error other than NoSuchKey, in the first load
\* of a call or in a later one: load_embeddings raises (embeddings.py 54-58)
AddLoadFault(j) ==
    /\ \/ a[j].pc \in {"idle", "done"} /\ a[j].calls < MaxAddCalls
             /\ a' = [a EXCEPT ![j] =
                         AddRaise([IdleAdder EXCEPT !.loads = 1,
                                                    !.calls = a[j].calls + 1])]
       \/ a[j].pc = "load"
             /\ a' = [a EXCEPT ![j] = AddRaise([a[j] EXCEPT !.loads = @ + 1])]
    /\ UNCHANGED <<cat, emb, now, w, d, u, leg, dd>>

\* put_object fails with an error other than PreconditionFailed:
\* save_embeddings raises, the store has not applied the write
\* (embeddings.py 98-103)
AddSaveFault(j) ==
    /\ a[j].pc = "save"
    /\ a' = [a EXCEPT ![j] = AddRaise([a[j] EXCEPT !.saves = @ + 1])]
    /\ UNCHANGED <<cat, emb, now, w, d, u, leg, dd>>

(***************************************************************************)
(* handle_post_request: the embeddings of the committed recipes are stored *)
(* under the keys of position_to_key (lambda_function.py 1165-1188)        *)
(***************************************************************************)
\* a plausible slip: the position is taken for the recipe key
KeyedByPosition(position_to_key, new_embeddings) ==
    [k \in {str(p) : p \in (DOMAIN new_embeddings) \cap (DOMAIN position_to_key)}
        |-> new_embeddings[CHOOSE p \in DOMAIN new_embeddings : str(p) = k]]

\* keyed_embeddings: the embedding of every position that position_to_key
\* maps, under the key it maps to (lambda_function.py 1176-1182)
KeyedEmbeddings(position_to_key, new_embeddings) ==
    LET positions == (DOMAIN new_embeddings) \cap (DOMAIN position_to_key)
    IN  [k \in {position_to_key[p] : p \in positions} |->
            new_embeddings[CHOOSE p \in positions : position_to_key[p] = k]]

\* batch_to_s3_atomic has returned with accepted candidates: the handler
\* appends the errors it returned to file_errors and calls
\* add_embeddings(keyed_embeddings) on the EmbeddingStore of its own
\* request, whose first load this is (lambda_function.py 1167-1188)
HandlerAdd(i) ==
    /\ w[i].pc = "done"
    /\ KeyedEmbeddings(w[i].position_to_key, w[i].new_embeddings) # EmptyDict
    /\ a[i].pc = "idle"
    /\ a' = [a EXCEPT ![i] = AddAttempt([IdleAdder EXCEPT
                !.new_embeddings =
                    KeyedEmbeddings(w[i].position_to_key, w[i].new_embeddings),
                !.calls = 1], emb)]
    /\ w' = [w EXCEPT ![i].pc = "embed",
                      ![i].file_errors = @ \o w[i].errors]
    /\ UNCHANGED <<cat, emb, now, d, u, leg, dd>>

\* the same call when get_object of its first load fails with an error
\* other than NoSuchKey: load_embeddings raises before anything is written
\* (lambda_function.py 1187, embeddings.py 54-58)
HandlerAddFault(i) ==
    /\ w[i].pc = "done"
    /\ KeyedEmbeddings(w[i].position_to_key, w[i].new_embeddings) # EmptyDict
    /\ a[i].pc = "idle"
    /\ a' = [a EXCEPT ![i] = AddRaise([IdleAdder EXCEPT !.loads = 1,
                                                      !.calls = 1])]
    /\ w' = [w EXCEPT ![i].pc = "embed",
                      ![i].file_errors = @ \o w[i].errors]
    /\ UNCHANGED <<cat, emb, now, d, u, leg, dd>>

\* the status of the response: an exception of batch_to_s3_atomic or of
\* add_embeddings is caught and answered with 500 'Batch upload failed',
\* the value add_embeddings returns is not looked at
\* (lambda_function.py 1165-1202, 1262-1275)
HandlerStatus(batch_pc, add_pc, add_result) ==
    IF batch_pc \in {"raised", "faulted"} THEN 500
    ELSE IF batch_pc = "embed" /\ add_pc = "raised" THEN 500
    ELSE 200

BatchUploadFailed == "Batch upload failed"
ServiceInitFailed == "Service initialization failed"

\* the message of a 200 response, without the counts it quotes
\* (lambda_function.py 1204-1214)
HandlerMessage(success_count, fail_count) ==
    IF success_count > 0 /\ fail_count = 0 THEN "recipes added successfully"
    ELSE IF success_count > 0 /\ fail_count > 0 THEN "recipes added, some failed"
    ELSE IF success_count = 0 /\ fail_count > 0 THEN "All recipes failed"
    ELSE "No recipes processed"

\* the response of handle_post_request, when no recipe was left to upload
\* or batch_to_s3_atomic and, if called, add_embeddings have returned or
\* raised; a batch call that returned without a key to embed has its
\* errors appended to file_errors here (lambda_function.py 1171-1275)
HandlerRespond(i) ==
    /\ \/ w[i].pc \in {"skipped", "raised", "faulted"}
       \/ /\ w[i].pc = "done"
          /\ KeyedEmbeddings(w[i].position_to_key, w[i].new_embeddings) = EmptyDict
       \/ w[i].pc = "embed" /\ a[i].pc \in {"done", "raised"}
    /\ LET status == HandlerStatus(w[i].pc, a[i].pc, a[i].result)
           file_errors == IF w[i].pc = "done" THEN w[i].file_errors \o w[i].errors
                          ELSE w[i].file_errors
           success_count == Len(w[i].success_keys)
           fail_count == Len(file_errors)
       IN  w' = [w EXCEPT ![i] =
                  IF status = 500
                  THEN [@ EXCEPT !.pc = "responded", !.status = 500,
                                 !.message = BatchUploadFailed]
                  ELSE [@ EXCEPT !.pc = "responded", !.status = 200,
                                 !.file_errors = file_errors,
                                 !.success_count = success_count,
                                 !.fail_count = fail_count,
                                 !.message = HandlerMessage(success_count,
                                                            fail_count)]]
    /\ UNCHANGED <<cat, emb, now, d, u, a, leg, dd>>

(***************************************************************************)
(* DuplicateDetector (duplicate_detector.py).  The vectors of the model    *)
(* have integer components and an integer magnitude, so that math.sqrt and *)
(* the product of the magnitudes are exact and a similarity is the         *)
(* fraction dot / (magnitude1 * magnitude2), kept in lowest terms.         *)
(***************************************************************************)
None == "None"

RECURSIVE GCD(_, _)
GCD(m, n) == IF n = 0 THEN m ELSE GCD(n, m % n)

Abs(n) == IF n < 0 THEN 0 - n ELSE n

\* the float n / m, m > 0
Ratio(n, m) ==
    LET g == GCD(Abs(n), m)
    IN  [num |-> n \div g, den |-> m \div g]

\* 0.0
Zero == [num |-> 0, den |-> 1]

\* r1 > r2
Gt(r1, r2) == r1.num * r2.den > r2.num * r1.den

\* config.SIMILARITY_THRESHOLD: 0.85
SIMILARITY_THRESHOLD == [num |-> 17, den |-> 20]

\* sum(a * b for a, b in zip(vec1, vec2)): zip stops at the shorter vector
RECURSIVE DotFrom(_, _, _)
DotFrom(vec1, vec2, i) ==
    IF i > Len(vec1) \/ i > Len(vec2) THEN 0
    ELSE vec1[i] * vec2[i] + DotFrom(vec1, vec2, i + 1)

\* math.sqrt(sum(x * x for x in vec)), the sum being a perfect square
Magnitude(vec) ==
    LET n == DotFrom(vec, vec, 1)
    IN  CHOOSE r \in 0..n : r * r = n

Raised(kind) == [kind |-> kind, value |-> Zero, divisions |-> 0]

Returned(value, divisions) ==
    [kind |-> "ok", value |-> value, divisions |-> divisions]

\* a plausible slip: the zero vectors are handled before the lengths are
\* compared
cosine_similarity_zero_first(vec1, vec2) ==
    IF Magnitude(vec1) = 0 \/ Magnitude(vec2) = 0 THEN Returned(Zero, 0)
    ELSE IF Len(vec1) # Len(vec2) THEN Raised("ValueError")
    ELSE Returned(Ratio(DotFrom(vec1, vec2, 1),
                        Magnitude(vec1) * Magnitude(vec2)), 1)

\* a plausible slip: no guard for the zero vectors
cosine_similarity_unguarded(vec1, vec2) ==
    IF Len(vec1) # Len(vec2) THEN Raised("ValueError")
    ELSE IF Magnitude(vec1) * Magnitude(vec2) = 0 THEN Raised("ZeroDivisionError")
    ELSE Returned(Ratio(DotFrom(vec1, vec2, 1),
                        Magnitude(vec1) * Magnitude(vec2)), 1)

\* DuplicateDetector.cosine_similarity (duplicate_detector.py 27-65);
\* divisions counts the divisions carried out
cosine_similarity(vec1, vec2) ==
    IF Len(vec1) # Len(vec2) THEN Raised("ValueError")
    ELSE LET dot_product == DotFrom(vec1, vec2, 1)
             magnitude1 == Magnitude(vec1)
             magnitude2 == Magnitude(vec2)
         IN  IF magnitude1 = 0 \/ magnitude2 = 0 THEN Returned(Zero, 0)
             ELSE Returned(Ratio(dot_product, magnitude1 * magnitude2), 1)

Found(kind, key, score) == [kind |-> kind, key |-> key, score |-> score]

\* the loop of find_most_similar over existing_embeddings.items(), a dict
\* in insertion order: a sequence of <<recipe_key, embedding>>
\* (duplicate_detector.py 80-90)
RECURSIVE ScanFrom(_, _, _, _, _)
ScanFrom(items, new_embedding, i, most_similar_key, max_similarity) ==
    IF i > Len(items) THEN Found("ok", most_similar_key, max_similarity)
    ELSE LET similarity == cosine_similarity(new_embedding, items[i][2])
         IN  IF similarity.kind # "ok" THEN Found(similarity.kind, None, Zero)
             ELSE IF Gt(similarity.value, max_similarity)
             THEN ScanFrom(items, new_embedding, i + 1, items[i][1],
                           similarity.value)
             ELSE ScanFrom(items, new_embedding, i + 1, most_similar_key,
                           max_similarity)

\* DuplicateDetector.find_most_similar (duplicate_detector.py 67-90)
find_most_similar(existing_embeddings, new_embedding) ==
    IF existing_embeddings = <<>> THEN Found("ok", None, Zero)
    ELSE ScanFrom(existing_embeddings, new_embedding, 1, None, Zero)

\* DuplicateDetector.is_duplicate (duplicate_detector.py 92-110)
is_duplicate(existing_embeddings, new_embedding) ==
    LET found == find_most_similar(existing_embeddings, new_embedding)
    IN  IF found.kind # "ok"
        THEN [kind |-> found.kind, duplicate |-> FALSE, key |-> None, score |-> Zero]
        ELSE IF Gt(found.score, SIMILARITY_THRESHOLD)
        THEN [kind |-> "ok", duplicate |-> TRUE, key |-> found.key,
              score |-> found.score]
        ELSE [kind |-> "ok", duplicate |-> FALSE, key |-> None,
              score |-> found.score]

\* the embeddings of the model
Vectors ==
    {<<0, 0>>, <<1, 0>>, <<0, 1>>, <<0 - 1, 0>>, <<3, 4>>, <<4, 3>>,
     <<1, 0, 0, 0, 0>>, <<17, 1, 1, 3, 10>>}

\* the indexes of the model: up to MaxIndex entries under the keys "1", "2", ...
Indexes ==
    {[i \in 1..Len(vs) |-> <<str(i), vs[i]>>] :
        vs \in SeqUpTo(Vectors, MaxIndex)}

IdleDetector ==
    [pc |-> "idle", existing_embeddings |-> <<>>, new_embedding |-> <<>>,
     similarities |-> <<>>, found |-> Found("ok", None, Zero),
     result |-> [kind |-> "ok", duplicate |-> FALSE, key |-> None, score |-> Zero]]

\* DuplicateDetector(existing_embeddings) is built and asked about
\* new_embedding: cosine_similarity against every entry, find_most_similar
\* and is_duplicate (lambda_function.py 102, duplicate_detector.py 18-110)
DupCheck ==
    /\ dd.pc = "idle"
    /\ \E existing_embeddings \in Indexes, new_embedding \in Vectors :
         dd' = [pc |-> "done",
                existing_embeddings |-> existing_embeddings,
                new_embedding |-> new_embedding,
                similarities |->
                    [i \in 1..Len(existing_embeddings) |->
                        cosine_similarity(new_embedding, existing_embeddings[i][2])],
                found |-> find_most_similar(existing_embeddings, new_embedding),
                result |-> is_duplicate(existing_embeddings, new_embedding)]
    /\ UNCHANGED <<cat, emb, now, w, d, u, a, leg>>

(***************************************************************************)
(* handle_post_request up to the call of batch_to_s3_atomic: the services  *)
(* are set up with the index as it is now, every recipe of the request is  *)
(* processed against that index, and the search results of the recipes     *)
(* that are left are filtered against the image URLs the catalog uses      *)
(* (lambda_function.py 895-1163)                                           *)
(***************************************************************************)
\* existing_embeddings.items(): the entries of the index in an order; what
\* the handler uses of the detector's answer does not depend on the order
RECURSIVE ItemsOf(_)
ItemsOf(embeddings) ==
    IF DOMAIN embeddings = {} THEN <<>>
    ELSE LET k == CHOOSE x \in DOMAIN embeddings : TRUE
             rest == [x \in (DOMAIN embeddings) \ {k} |-> embeddings[x]]
         IN  <<<<k, embeddings[k]>>>> \o ItemsOf(rest)

\* a recipe of the request as it comes out of the OCR, with what the
\* embedding generator and the image search answer for it; NoEmbedding
\* stands for a generator that raises
NoEmbedding == <<>>

RequestItem(title, embedding, search_results) ==
    <<title, embedding, search_results>>

TitleOf(item) == item[1]
EmbeddingOf(item) == item[2]
SearchResultsOf(item) == item[3]

\* the requests of the model: up to n recipes
HandlerRequests(pool, vectors, results, n) ==
    SeqUpTo({RequestItem(title, embedding, search_results) :
                title \in pool, embedding \in vectors, search_results \in results},
            n)

DuplicateOfRecipe == "Duplicate of recipe"
ProcessingFailed == "Processing failed"

\* process_single_recipe: error_reason, None for a recipe that goes on to
\* the batch (lambda_function.py 64-117)
process_single_recipe(item, existing_embeddings) ==
    IF EmbeddingOf(item) = NoEmbedding THEN ProcessingFailed
    ELSE LET answer == is_duplicate(existing_embeddings, EmbeddingOf(item))
         IN  IF answer.kind # "ok" THEN ProcessingFailed
             ELSE IF answer.duplicate THEN DuplicateOfRecipe
             ELSE None

\* search_results[:5]
FirstFive(search_results) ==
    SubSeq(search_results, 1, IF Len(search_results) < 5 THEN Len(search_results) ELSE 5)

\* extract_used_image_urls (search_image.py 234-257)
extract_used_image_urls(json_data) ==
    {json_data[k].image_url : k \in {x \in DOMAIN json_data : json_data[x].image_url # ""}}

\* the loop that filters the search results of each recipe: the URLs in
\* use are dropped, the first URL left counts as used from then on, and
\* with nothing left the first five are passed as they are
\* (lambda_function.py 1150-1163)
RECURSIVE FilterFrom(_, _, _)
FilterFrom(search_results_list, p, used_urls) ==
    IF p > Len(search_results_list) THEN <<>>
    ELSE LET search_results == search_results_list[p]
             unused_urls == SelectSeq(search_results,
                                      LAMBDA url : url \notin used_urls)
         IN  IF unused_urls # <<>>
             THEN <<unused_urls>> \o
                  FilterFrom(search_results_list, p + 1,
                             used_urls \cup {unused_urls[1]})
             ELSE <<FirstFive(search_results)>> \o
                  FilterFrom(search_results_list, p + 1, used_urls)

\* unique_search_results for the catalog read (lambda_function.py 1146-1163)
unique_search_results(json_data, search_results_list) ==
    FilterFrom(search_results_list, 1, extract_used_image_urls(json_data))

\* the items of request at the places of a list
SelectSeqOf(request, places) == [p \in 1..Len(places) |-> request[places[p]]]

\* the request arrives: load_embeddings answers, the recipes (each from a
\* file of its own) are processed in parallel against that index and
\* gathered in the order in which they complete; without a recipe left
\* nothing is uploaded
\* (lambda_function.py 895-912, 1060-1110, 1127, 1189-1190)
HandlerInit(i, requests) ==
    /\ w[i].pc = "idle"
    /\ \E request \in requests :
       \E order \in Permutations(1..Len(request)) :
         LET existing_embeddings == ItemsOf(load_embeddings(emb).embeddings)
             completed == [p \in 1..Len(request) |-> order[p]]
             unique == SelectSeqOf(request, SelectSeq(completed, LAMBDA q :
                          process_single_recipe(request[q], existing_embeddings) = None))
             failed == SelectSeq(completed, LAMBDA q :
                          process_single_recipe(request[q], existing_embeddings) # None)
             unique_recipes ==
                 [p \in 1..Len(unique) |-> Recipe(TitleOf(unique[p]), <<i, p - 1>>)]
         IN  w' = [w EXCEPT ![i] = [IdleWriter EXCEPT
                      !.pc = IF unique = <<>> THEN "skipped" ELSE "read",
                      !.recipes = unique_recipes, !.given = unique_recipes,
                      !.search_results_list =
                          [p \in 1..Len(unique) |-> SearchResultsOf(unique[p])],
                      !.new_embeddings =
                          [p \in 0..(Len(unique) - 1) |-> EmbeddingOf(unique[p + 1])],
                      !.file_errors =
                          [p \in 1..Len(failed) |->
                              ErrorOf(failed[p] - 1, TitleOf(request[failed[p]]),
                                      process_single_recipe(
                                          request[failed[p]], existing_embeddings))]]]
    /\ UNCHANGED <<cat, emb, now, d, u, a, leg, dd>>

\* load_embeddings raises: 500 'Service initialization failed'
\* (lambda_function.py 895-925)
HandlerInitFault(i) ==
    /\ w[i].pc = "idle"
    /\ w' = [w EXCEPT ![i] = [IdleWriter EXCEPT !.pc = "responded",
                                  !.status = 500, !.message = ServiceInitFailed]]
    /\ UNCHANGED <<cat, emb, now, d, u, a, leg, dd>>

\* the catalog is read for the image URLs in use and the search results
\* are filtered (lambda_function.py 1127-1163)
HandlerRead(i) ==
    /\ w[i].pc = "read"
    /\ w' = [w EXCEPT ![i].pc = "call",
                      ![i].search_results_list =
                          unique_search_results(BodyOf(cat), @)]
    /\ UNCHANGED <<cat, emb, now, d, u, a, leg, dd>>

\* the same read when get_object fails with an error other than NoSuchKey:
\* json_data = {} (lambda_function.py 1140-1143)
HandlerReadFault(i) ==
    /\ w[i].pc = "read"
    /\ w' = [w EXCEPT ![i].pc = "call",
                      ![i].search_results_list =
                          unique_search_results(EmptyDict, @)]
    /\ UNCHANGED <<cat, emb, now, d, u, a, leg, dd>>

\* batch_to_s3_atomic(unique_recipes, unique_search_results) and the load
\* of its first attempt (lambda_function.py 1165-1169, upload.py 297-389)
HandlerCall(i) ==
    /\ w[i].pc = "call"
    /\ w' = [w EXCEPT ![i] = Attempt(@, cat, now)]
    /\ UNCHANGED <<cat, emb, now, d, u, a, leg, dd>>

(***************************************************************************)
(* handle_post_image_request: the validation of the selected URL and the   *)
(* retry loop that records it (lambda_function.py 568-808)                 *)
(***************************************************************************)
UpdKeys == {"1"}
UpdUrls == {"u1", "u9"}

IdleUpdater ==
    [pc |-> "idle", recipe_key |-> "", image_url |-> "", attempt |-> 0,
     json_data |-> EmptyDict, etag |-> NoEtag, status |-> 0, puts |-> 0,
     sleeps |-> 0]

InSeq(x, s) == \E j \in 1..Len(s) : s[j] = x

\* the response: the locals of the handler are gone
UpdReturn(self, status) ==
    [IdleUpdater EXCEPT !.pc = "done", !.recipe_key = self.recipe_key,
                        !.image_url = self.image_url, !.attempt = self.attempt,
                        !.status = status, !.puts = self.puts,
                        !.sleeps = self.sleeps]

\* the request: the recipe must be there with an image_search_results
\* field (<<>> stands for a recipe without the field) and the selected URL
\* must be one of them (lambda_function.py 568-613); the image is then fetched from the
\* URL and uploaded, and a fetch or an upload that fails is answered with
\* 500 before the catalog is touched (lambda_function.py 615-657).  Whether
\* they succeed is up to the remote host and the store.
UpdStart ==
    /\ u.pc = "idle"
    /\ \E k \in UpdKeys, url \in UpdUrls, fetched \in BOOLEAN :
         LET json_data == BodyOf(cat)
             self == [IdleUpdater EXCEPT !.recipe_key = k, !.image_url = url]
         IN  u' = IF ~cat.exists
                  THEN UpdReturn(self, 500)
                  ELSE IF \/ k \notin DOMAIN json_data
                          \/ json_data[k].image_search_results = <<>>
                  THEN UpdReturn(self, 404)
                  ELSE IF ~InSeq(url, json_data[k].image_search_results)
                  THEN UpdReturn(self, 400)
                  ELSE IF ~fetched
                  THEN UpdReturn(self, 500)
                  ELSE [self EXCEPT !.pc = "load"]
    /\ UNCHANGED <<cat, emb, now, w, d, a, leg, dd>>

\* load combined_data with its ETag and set image_url
\* (lambda_function.py 669-720)
UpdLoad ==
    /\ u.pc = "load"
    /\ LET json_data == BodyOf(cat)
       IN  u' = IF ~cat.exists \/ u.recipe_key \notin DOMAIN json_data
                THEN UpdReturn(u, 404)
                ELSE [u EXCEPT !.pc = "save", !.etag = EtagOf(cat),
                               !.json_data = [json_data EXCEPT
                                   ![u.recipe_key].image_url = u.image_url]]
    /\ UNCHANGED <<cat, emb, now, w, d, a, leg, dd>>

\* the conditional write back (lambda_function.py 722-783)
UpdSave ==
    /\ u.pc = "save"
    /\ IF PutAccepted(cat, u.etag)
       THEN /\ cat' = PutResult(cat, u.json_data)
            /\ u' = UpdReturn([u EXCEPT !.puts = @ + 1], 200)
            /\ now' = now
       ELSE IF u.attempt < IMG_MAX_RETRIES - 1
       THEN /\ u' = [u EXCEPT !.pc = "load", !.attempt = @ + 1, !.sleeps = @ + 1]
            /\ now' = now + 1
            /\ cat' = cat
       ELSE /\ u' = UpdReturn(u, 500)
            /\ now' = now
            /\ cat' = cat
    /\ UNCHANGED <<emb, w, d, a, leg, dd>>

\* the error leaves the handler and lambda_handler: there is no response
UpdRaise(self) ==
    [IdleUpdater EXCEPT !.pc = "raised", !.recipe_key = self.recipe_key,
                        !.image_url = self.image_url, !.attempt = self.attempt,
                        !.puts = self.puts, !.sleeps = self.sleeps]

\* the store fails.  In the validation of the request a ClientError of
\* get_object is answered with 500 and any other exception leaves the
\* handler (lambda_function.py 568-613); in the loop every error of
\* get_object other than NoSuchKey and every error of put_object other
\* than PreconditionFailed is answered with 500
\* (lambda_function.py 688-699, 773-808)
UpdFault ==
    /\ \/ /\ u.pc = "idle"
          /\ \E k \in UpdKeys, url \in UpdUrls, client_error \in BOOLEAN :
                LET self == [IdleUpdater EXCEPT !.recipe_key = k,
                                                !.image_url = url]
                IN  u' = IF client_error THEN UpdReturn(self, 500)
                         ELSE UpdRaise(self)
       \/ /\ u.pc \in {"load", "save"}
          /\ u' = UpdReturn(u, 500)
    /\ UNCHANGED <<cat, emb, now, w, d, a, leg, dd>>

(***************************************************************************)
(* The system: two racing batch writers, a delete and an image update.     *)
(***************************************************************************)
Init ==
    /\ \E scheme \in ETagSchemes :
          \/ cat = Absent(scheme) /\ emb = Absent(scheme)
          \/ /\ cat = Holding(SparseDoc, scheme)
             /\ emb = Holding(SparseIndex, scheme)
    /\ now = 1
    /\ w = [i \in Writers |-> IdleWriter]
    /\ d = IdleDeleter
    /\ u = IdleUpdater
    /\ a = [j \in Adders |-> IdleAdder]
    /\ leg = IdleLegacy
    /\ dd = IdleDetector

\* the add_embeddings call that is followed on its own
adder == a["a1"]

\* the upload requests of the model: at most one recipe, whose embedding
\* is far from the entries the index starts with and equal to that of
\* every other upload; the two uploads spell the title differently
UploadVectors == {<<0, 1>>}

UploadRequests(i) ==
    HandlerRequests({IF i = "w1" THEN Soup ELSE SoupWs}, UploadVectors, {Urls}, 1)

Next ==
    \/ \E i \in Writers : HandlerInit(i, UploadRequests(i))
    \/ \E i \in Writers : HandlerRead(i)
    \/ \E i \in Writers : HandlerCall(i)
    \/ \E i \in Writers : Load(i)
    \/ \E i \in Writers : SaveOk(i)
    \/ \E i \in Writers : SaveConflictRetry(i)
    \/ \E i \in Writers : SaveConflictRaise(i)
    \/ \E i \in Writers : HandlerAdd(i)
    \/ \E i \in Writers : AddLoad(i)
    \/ \E i \in Writers : AddSave(i)
    \/ DelStart
    \/ DelLoadCat
    \/ DelLoadEmb
    \/ DelSaveCat
    \/ DelSaveEmb
    \/ UpdStart
    \/ UpdLoad
    \/ UpdSave

Spec == Init /\ [][Next]_vars

(***************************************************************************)
(* Two racing batch writers, either of which the caller may abandon.       *)
(***************************************************************************)
NextRace ==
    \/ Start("w1", FullBatches(TitlePool, MaxBatch))
    \/ Start("w2", FullBatches(TitlePool, 1))
    \/ \E i \in Writers : Load(i)
    \/ \E i \in Writers : SaveOk(i)
    \/ \E i \in Writers : SaveConflictRetry(i)
    \/ \E i \in Writers : Abandon(i)

SpecRace == Init /\ [][NextRace]_vars

(***************************************************************************)
(* One batch writer alone, with every argument pair within the bounds.     *)
(***************************************************************************)
NextBatch ==
    \/ Start("w1", RichBatches)
    \/ SaveOk("w1")

SpecBatch == Init /\ [][NextBatch]_vars

(***************************************************************************)
(* Two racing batch writers on a store that may fail.                      *)
(***************************************************************************)
NextFault ==
    \/ Start("w1", FullBatches(TitlePool, MaxBatch))
    \/ Start("w2", FullBatches(TitlePool, 1))
    \/ \E i \in Writers : Load(i)
    \/ \E i \in Writers : SaveOk(i)
    \/ \E i \in Writers : SaveConflictRetry(i)
    \/ \E i \in Writers : LoadFault(i)
    \/ \E i \in Writers : SaveFault(i)

SpecFault == Init /\ [][NextFault]_vars

(***************************************************************************)
(* Deletes made one after the other, with nothing else running.            *)
(***************************************************************************)
NextDelSeq ==
    \/ DelStart
    \/ DelAgain(SeqKeys)
    \/ DelLoadEmb
    \/ DelSaveCat
    \/ DelSaveEmb

SpecDelSeq == Init /\ [][NextDelSeq]_vars

(***************************************************************************)
(* Deletes made one after the other on a store that may fail, beside an    *)
(* embedding merge.                                                        *)
(***************************************************************************)
NextDelFault ==
    \/ DelStart
    \/ DelAgain(DelKeys)
    \/ DelLoadCat
    \/ DelLoadEmb
    \/ DelSaveCat
    \/ DelSaveEmb
    \/ DelFault
    \/ DelAgainFault(DelKeys)
    \/ AddCall("a1", AddInputs)
    \/ AddLoad("a1")
    \/ AddSave("a1")

SpecDelFault == Init /\ [][NextDelFault]_vars

(***************************************************************************)
(* A delete racing with an upload's batch write and embedding merges.      *)
(***************************************************************************)
NextDel ==
    \/ DelStart
    \/ DelLoadCat
    \/ DelLoadEmb
    \/ DelSaveCat
    \/ DelSaveEmb
    \/ AddCall("a1", AddInputs)
    \/ AddLoad("a1")
    \/ AddSave("a1")
    \/ Start("w1", FullBatches(SoupPool, 1))
    \/ Load("w1")
    \/ SaveOk("w1")
    \/ SaveConflictRetry("w1")
    \/ SaveConflictRaise("w1")

SpecDel == Init /\ [][NextDel]_vars

(***************************************************************************)
(* Embedding merges on a store that may fail, racing with deletes.         *)
(***************************************************************************)
NextEmb ==
    \/ AddCall("a1", AddInputs)
    \/ AddLoad("a1")
    \/ AddSave("a1")
    \/ AddLoadFault("a1")
    \/ AddSaveFault("a1")
    \/ DelStart
    \/ DelAgain(DelKeys)
    \/ DelLoadCat
    \/ DelLoadEmb
    \/ DelSaveCat
    \/ DelSaveEmb

SpecEmb == Init /\ [][NextEmb]_vars

(***************************************************************************)
(* Two uploads, each a batch write followed by the merge of its            *)
(* embeddings, racing with a delete.                                       *)
(***************************************************************************)
NextUpload ==
    \/ \E i \in Writers : HandlerInit(i, UploadRequests(i))
    \/ \E i \in Writers : HandlerRead(i)
    \/ \E i \in Writers : HandlerCall(i)
    \/ \E i \in Writers : Load(i)
    \/ \E i \in Writers : SaveOk(i)
    \/ \E i \in Writers : SaveConflictRetry(i)
    \/ \E i \in Writers : HandlerAdd(i)
    \/ \E i \in Writers : AddLoad(i)
    \/ \E i \in Writers : AddSave(i)
    \/ DelStart
    \/ DelLoadCat
    \/ DelLoadEmb
    \/ DelSaveCat
    \/ DelSaveEmb

SpecUpload == Init /\ [][NextUpload]_vars

(***************************************************************************)
(* The four operations that save under an If-Match condition: a batch      *)
(* upload, a delete, add_embeddings and an image update.                   *)
(***************************************************************************)
NextTokens ==
    \/ Start("w1", FullBatches(SoupPool, 1))
    \/ Load("w1")
    \/ SaveOk("w1")
    \/ SaveConflictRetry("w1")
    \/ SaveConflictRaise("w1")
    \/ DelStart
    \/ DelLoadCat
    \/ DelLoadEmb
    \/ DelSaveCat
    \/ DelSaveEmb
    \/ a["a1"].pc = "idle" /\ AddCall("a1", AddInputs)
    \/ AddLoad("a1")
    \/ AddSave("a1")
    \/ UpdStart
    \/ UpdLoad
    \/ UpdSave

SpecTokens == Init /\ [][NextTokens]_vars

(***************************************************************************)
(* An image update racing with a delete and with two uploads of one        *)
(* recipe each, whose search results differ.                               *)
(***************************************************************************)
AltUrls == <<"u9">>

ImageBatches ==
    {<<<<title>>, <<search_results>>>> :
        title \in {Soup, Tea}, search_results \in {Urls, AltUrls}}

NextImage ==
    \/ \E i \in Writers : Start(i, ImageBatches)
    \/ \E i \in Writers : Load(i)
    \/ \E i \in Writers : SaveOk(i)
    \/ \E i \in Writers : SaveConflictRetry(i)
    \/ \E i \in Writers : SaveConflictRaise(i)
    \/ DelStart
    \/ DelLoadCat
    \/ DelLoadEmb
    \/ DelSaveCat
    \/ DelSaveEmb
    \/ UpdStart
    \/ UpdLoad
    \/ UpdSave

SpecImage == Init /\ [][NextImage]_vars

(***************************************************************************)
(* Two batch writes racing with a delete and an image update: one of       *)
(* several candidates, with and without search results, one of a single    *)
(* candidate.                                                              *)
(***************************************************************************)
CatalogPool == SoupPool

\* argument pairs of up to n candidates, each with an entry of
\* search_results_list
MixedBatches(pool, n) ==
    UNION {{<<titles, srl>> : titles \in [1..m -> pool],
                             srl \in [1..m -> SearchResults]} : m \in 0..n}

NextCatalog ==
    \/ Start("w1", MixedBatches(CatalogPool, MaxMixed))
    \/ Start("w2", {<<<<Soup>>, <<Urls>>>>})
    \/ \E i \in Writers : Load(i)
    \/ \E i \in Writers : SaveOk(i)
    \/ \E i \in Writers : SaveConflictRetry(i)
    \/ \E i \in Writers : SaveConflictRaise(i)
    \/ DelStart
    \/ DelLoadCat
    \/ DelLoadEmb
    \/ DelSaveCat
    \/ DelSaveEmb
    \/ UpdStart
    \/ UpdLoad
    \/ UpdSave

SpecCatalog == Init /\ [][NextCatalog]_vars

(***************************************************************************)
(* One upload request from its arrival to the response, on a store that    *)
(* may fail, beside repeated deletes.                                      *)
(***************************************************************************)
HandlerVectors == {<<0, 1>>, <<1, 0>>, NoEmbedding}

NextHandler ==
    \/ HandlerInit("w1", HandlerRequests({Soup}, HandlerVectors,
                                         {Urls, <<>>}, MaxRecipes))
    \/ HandlerInitFault("w1")
    \/ HandlerRead("w1")
    \/ HandlerReadFault("w1")
    \/ HandlerCall("w1")
    \/ LoadFault("w1")
    \/ Load("w1")
    \/ SaveOk("w1")
    \/ SaveConflictRetry("w1")
    \/ SaveConflictRaise("w1")
    \/ SaveFault("w1")
    \/ HandlerAdd("w1")
    \/ HandlerAddFault("w1")
    \/ AddLoad("w1")
    \/ a["w1"].pc = "load" /\ AddLoadFault("w1")
    \/ AddSave("w1")
    \/ AddSaveFault("w1")
    \/ HandlerRespond("w1")
    \/ DelStart
    \/ DelAgain(DelKeys)
    \/ DelLoadCat
    \/ DelLoadEmb
    \/ DelSaveCat
    \/ DelSaveEmb

SpecHandler == Init /\ [][NextHandler]_vars

(***************************************************************************)
(* to_s3 beside a batch upload and an image update.                        *)
(***************************************************************************)
NextLegacy ==
    \/ ToS3Load(TitlePool)
    \/ ToS3Save
    \/ ToS3Fault
    \/ Start("w1", FullBatches(TitlePool, 1))
    \/ Load("w1")
    \/ SaveOk("w1")
    \/ SaveConflictRetry("w1")
    \/ UpdStart
    \/ UpdLoad
    \/ UpdSave

SpecLegacy == Init /\ [][NextLegacy]_vars

(***************************************************************************)
(* The four retry loops against a store that answers with conflicts (the   *)
(* writes of the other operations), with NoSuchKey and with other errors.  *)
(***************************************************************************)
WriterStep ==
    \/ LoadFault("w1")
    \/ SaveFault("w1")
    \/ Start("w1", FullBatches(SoupPool, 1))
    \/ Load("w1")
    \/ SaveOk("w1")
    \/ SaveConflictRetry("w1")
    \/ SaveConflictRaise("w1")

DeleterStep ==
    \/ DelStart
    \/ DelLoadCat
    \/ DelLoadEmb
    \/ DelSaveCat
    \/ DelSaveEmb
    \/ DelFault

\* one call of add_embeddings, from its first load on
AdderStep ==
    \/ a["a1"].pc = "idle" /\ AddCall("a1", AddInputs)
    \/ AddLoad("a1")
    \/ AddSave("a1")
    \/ a["a1"].pc \in {"idle", "load"} /\ AddLoadFault("a1")
    \/ AddSaveFault("a1")

UpdaterStep ==
    \/ UpdStart
    \/ UpdLoad
    \/ UpdSave
    \/ UpdFault

NextTerm == WriterStep \/ DeleterStep \/ AdderStep \/ UpdaterStep

SpecTerm == Init /\ [][NextTerm]_vars

(***************************************************************************)
(* The duplicate detector on every index and query of the model.           *)
(***************************************************************************)
NextDup == DupCheck

SpecDup == Init /\ [][NextDup]_vars

(***************************************************************************)
(* Properties.                                                             *)
(***************************************************************************)
\* invocation i has finished the processing of an attempt
Processed(i) == w[i].pc \in {"save", "done"}

InFlight(i) == Processed(i) /\ w[i].success_keys # <<>>

\* the step in which invocation i gets its put_object accepted
Commits(i) == w[i].pc = "save" /\ w'[i].pc = "done"

Norm(i, p) == normalize_title(w[i].given[p + 1].Title)

UniqueTitles(doc) ==
    \A k1, k2 \in DOMAIN doc :
        k1 # k2 => normalize_title(doc[k1].Title) # normalize_title(doc[k2].Title)

\* C1: whenever a put of batch_to_s3_atomic is applied, the document is
\* still at the version that invocation loaded (for a load that found no
\* document: there is still no document), so no save computed from a stale
\* load is ever applied.
C1_NoStaleSaveApplied ==
    [][\A i \in Writers : Commits(i) => w[i].etag = EtagOf(cat)]_vars

\* C2: when the first save conflicted and the second is accepted, the
\* committed document is the catalog as reloaded in the second attempt plus
\* the candidates accepted in that attempt: every entry of the reload is
\* still there, every other entry is a candidate of this call under the key
\* returned for it, and every position has either a key or an error.
C2_RetryCommitsSecondAttempt ==
    [][\A i \in Writers :
          (Commits(i) /\ w[i].attempt = 1) =>
              /\ \A k \in DOMAIN w[i].loaded :
                    k \in DOMAIN cat'.doc /\ cat'.doc[k] = w[i].loaded[k]
              /\ \A k \in (DOMAIN cat'.doc) \ (DOMAIN w[i].loaded) :
                    \E p \in DOMAIN w'[i].position_to_key :
                        /\ w'[i].position_to_key[p] = k
                        /\ cat'.doc[k].Ingredients = <<i, p>>
                        /\ str(cat'.doc[k].key) = k
              /\ \A p \in 0..(Len(w[i].given) - 1) :
                    p \in DOMAIN w'[i].position_to_key
                    \/ \E e \in 1..Len(w'[i].errors) : w'[i].errors[e].file = p]_vars

\* C3: a call whose every save conflicted raises after exactly 3 loads and
\* 3 saves, none of which was applied: its conflicting saves leave the
\* catalog as it is.
C3_ExhaustedAfterThree ==
    /\ [](\A i \in Writers :
            w[i].pc = "raised" =>
                w[i].loads = 3 /\ w[i].saves = 3 /\ w[i].puts = 0)
    /\ [][\A i \in Writers :
            (w[i].pc = "save" /\ w'[i].pc \in {"load", "raised"}) => cat' = cat]_vars

C3_Witness == \E i \in Writers : w[i].pc = "raised"

\* C4: an invocation changes the catalog at most once, that one write holds
\* every candidate accepted in the attempt, and before it (also when the
\* invocation is abandoned) the catalog holds none of its candidates.
C4_OneAtomicWrite ==
    /\ [](\A i \in Writers :
            /\ w[i].puts <= 1
            /\ w[i].puts = 0 =>
                  \A k \in DOMAIN cat.doc : cat.doc[k].Ingredients[1] # i)
    /\ [][\A i \in Writers :
            (cat' # cat /\ w'[i] # w[i]) =>
                /\ w[i].puts = 0
                /\ \A p \in DOMAIN w[i].position_to_key :
                      LET k == w[i].position_to_key[p]
                      IN  /\ k \in DOMAIN cat'.doc
                          /\ cat'.doc[k].Ingredients = <<i, p>>]_vars

\* one invocation committed two candidates in its one write while the other
\* was abandoned
C4_Witness ==
    \E i, j \in Writers :
        /\ w[i].pc = "done" /\ w[i].puts = 1 /\ Len(w[i].success_keys) >= 2
        /\ w[j].pc = "abandoned"

\* C5: no two recipes of the catalog share a normalized Title.
C5_UniqueTitles == UniqueTitles(cat.doc)

\* a batch write, a delete and an image update have all been applied, and
\* the batch write accepted one candidate and rejected another for having
\* the title of the first
C5_Witness ==
    /\ d.pc = "done" /\ d.ok
    /\ u.pc = "done" /\ u.status = 200
    /\ \E i \in Writers :
          /\ w[i].pc = "done" /\ w[i].puts = 1
          /\ \E p \in DOMAIN w[i].position_to_key, e \in 1..Len(w[i].errors) :
                /\ w[i].errors[e].reason = DuplicateTitle
                /\ w[i].errors[e].file > p
                /\ Norm(i, w[i].errors[e].file) = Norm(i, p)

\* C6: every key assigned to an accepted candidate is absent from the
\* catalog loaded in that attempt.
C6_AssignedKeysAreNew ==
    \A i \in Writers :
        Processed(i) =>
            \A j \in 1..Len(w[i].success_keys) :
                w[i].success_keys[j] \notin DOMAIN w[i].loaded

\* C7 as stated: the first accepted candidate gets "1" on an empty catalog
\* and "6" on a catalog with the keys 1, 2 and 5.
C7_FirstKeySixOnSparse ==
    \A i \in Writers :
        InFlight(i) =>
            /\ DOMAIN w[i].loaded = {} => w[i].success_keys[1] = "1"
            /\ DOMAIN w[i].loaded = {"1", "2", "5"} => w[i].success_keys[1] = "6"

\* C7 amended: the first accepted candidate gets "1" on an empty catalog
\* and "4" (count + 1) on a catalog with the keys 1, 2 and 5.
C7_FirstKeyFourOnSparse ==
    \A i \in Writers :
        InFlight(i) =>
            /\ DOMAIN w[i].loaded = {} => w[i].success_keys[1] = "1"
            /\ DOMAIN w[i].loaded = {"1", "2", "5"} => w[i].success_keys[1] = "4"

C7_Witness ==
    \E i \in Writers : InFlight(i) /\ DOMAIN w[i].loaded = {"1", "2", "5"}

\* C8: in every attempt the first key assigned is one more than the number
\* of entries of the document the store holds at that attempt's load.
C8_FirstKeyFromThisLoad ==
    [][\A i \in Writers :
          (w'[i].loads = w[i].loads + 1 /\ w'[i].success_keys # <<>>) =>
              w'[i].success_keys[1] = str(Cardinality(DOMAIN BodyOf(cat)) + 1)]_vars

\* a second attempt assigned keys from a reload that holds what the other
\* invocation committed in between
C8_Witness ==
    \E i, j \in Writers :
        /\ i # j /\ w[i].attempt = 1 /\ InFlight(i)
        /\ w[j].pc = "done" /\ w[j].puts = 1
        /\ w[j].success_keys[1] \in DOMAIN w[i].loaded
        /\ w[i].success_keys[1] = str(Cardinality(DOMAIN w[i].loaded) + 1)

RejectedAsDuplicate(i, p) ==
    \E e \in 1..Len(w[i].errors) :
        w[i].errors[e].file = p /\ w[i].errors[e].reason = DuplicateTitle

TitleTaken(i, p) ==
    \/ \E k \in DOMAIN w[i].loaded :
          normalize_title(w[i].loaded[k].Title) = Norm(i, p)
    \/ \E q \in 0..(p - 1) :
          q \in DOMAIN w[i].position_to_key /\ Norm(i, q) = Norm(i, p)

\* C9: a candidate is rejected with "Recipe title already exists" if and
\* only if its normalized Title is that of a recipe of the reloaded catalog
\* or of a candidate accepted earlier in the same attempt.
C9_RejectedIffTitleTaken ==
    \A i \in Writers :
        Processed(i) =>
            \A p \in 0..(Len(w[i].given) - 1) :
                RejectedAsDuplicate(i, p) <=> TitleTaken(i, p)

\* the number of accepted positions up to p
Rank(i, p) == Cardinality({q \in DOMAIN w[i].position_to_key : q <= p})

\* C10: committedKeys are the consecutive integers from count(loaded) + 1,
\* given to the accepted candidates in input order, a rejected candidate
\* taking none; two valid candidates on an empty catalog give ["1", "2"],
\* {0: "1", 1: "2"} and no errors.
C10_ConsecutiveKeysInOrder ==
    \A i \in Writers :
        Processed(i) =>
            LET base == Cardinality(DOMAIN w[i].loaded)
                acc == DOMAIN w[i].position_to_key
            IN  /\ Len(w[i].success_keys) = Cardinality(acc)
                /\ Len(w[i].success_keys) + Len(w[i].errors) = Len(w[i].given)
                /\ \A j \in 1..Len(w[i].success_keys) :
                      w[i].success_keys[j] = str(base + j)
                /\ \A p \in acc :
                      w[i].position_to_key[p] = str(base + Rank(i, p))
                /\ ( /\ DOMAIN w[i].loaded = {}
                     /\ Len(w[i].given) = 2
                     /\ Norm(i, 0) # Norm(i, 1)
                     /\ w[i].search_results_list = <<Urls, Urls>> ) =>
                        /\ w[i].success_keys = <<"1", "2">>
                        /\ w[i].position_to_key = (0 :> "1" @@ 1 :> "2")
                        /\ w[i].errors = <<>>

\* on an empty catalog the second of three candidates was rejected and the
\* third got the key after the first
C10_Witness ==
    \E i \in Writers :
        /\ w[i].pc = "done" /\ w[i].puts = 1
        /\ DOMAIN w[i].loaded = {}
        /\ w[i].success_keys = <<"1", "2">>
        /\ w[i].position_to_key = (0 :> "1" @@ 2 :> "2")
        /\ Len(w[i].errors) = 1

\* the errors entries that name position p
ErrorsAt(i, p) == {e \in 1..Len(w[i].errors) : w[i].errors[e].file = p}

\* the positions accepted before p, then p, in input order
KeptUpTo(i, p) ==
    LET S == {q \in DOMAIN w[i].position_to_key : q < p} \cup {p}
    IN  [j \in 1..Cardinality(S) |->
            CHOOSE q \in S : Cardinality({r \in S : r <= q}) = j]

\* the candidate at position p is accepted when the candidates rejected
\* before it are left out of the batch
AcceptedWithoutRejected(i, p) ==
    LET pos == KeptUpTo(i, p)
        recipes == [j \in 1..Len(pos) |-> w[i].given[pos[j] + 1]]
        srl == [j \in 1..Len(pos) |->
                   IF pos[j] < Len(w[i].search_results_list)
                   THEN w[i].search_results_list[pos[j] + 1] ELSE <<>>]
        st == ProcessBatch(w[i].loaded, recipes, srl, w[i].clock)
    IN  (Len(pos) - 1) \in DOMAIN st.position_to_key

\* C11: on a return, every input position is in exactly one of
\* positionToKey and errors, the returned catalog holds under
\* positionToKey[p] the candidate given at p, and a candidate is accepted
\* exactly when it would be with the candidates rejected before it left out.
C11_PositionsPartitioned ==
    \A i \in Writers :
        w[i].pc = "done" =>
            /\ DOMAIN w[i].position_to_key \subseteq 0..(Len(w[i].given) - 1)
            /\ \A e \in 1..Len(w[i].errors) :
                  w[i].errors[e].file \in 0..(Len(w[i].given) - 1)
            /\ \A p \in 0..(Len(w[i].given) - 1) :
                  /\ Cardinality(ErrorsAt(i, p)) =
                        IF p \in DOMAIN w[i].position_to_key THEN 0 ELSE 1
                  /\ p \in DOMAIN w[i].position_to_key <=> AcceptedWithoutRejected(i, p)
            /\ \A p \in DOMAIN w[i].position_to_key :
                  LET k == w[i].position_to_key[p]
                  IN  /\ k \in DOMAIN w[i].existing_data
                      /\ w[i].existing_data[k].Title = w[i].given[p + 1].Title
                      /\ w[i].existing_data[k].Ingredients =
                            w[i].given[p + 1].Ingredients

\* a committed batch whose first candidate was rejected for its title, whose
\* second had no image results and whose third was accepted
C11_Witness ==
    \E i \in Writers :
        /\ w[i].pc = "done" /\ w[i].puts = 1
        /\ Len(w[i].errors) = 2
        /\ w[i].errors[1].file = 0 /\ w[i].errors[1].reason = DuplicateTitle
        /\ w[i].errors[2].file = 1 /\ w[i].errors[2].reason = NoImages
        /\ DOMAIN w[i].position_to_key = {2}

\* C12: a call that returns with nothing accepted returns the catalog as
\* loaded, empty committedKeys and positionToKey and one error per
\* candidate, and has had no put applied; its only saves are the conflicting
\* ones of earlier attempts.
C12_NothingAcceptedNoWrite ==
    /\ [](\A i \in Writers :
            (w[i].pc = "done" /\ w[i].success_keys = <<>>) =>
                /\ w[i].existing_data = w[i].loaded
                /\ w[i].position_to_key = EmptyDict
                /\ Len(w[i].errors) = Len(w[i].given)
                /\ w[i].puts = 0
                /\ w[i].saves = w[i].attempt)
    /\ [][\A i \in Writers :
            (w'[i].loads = w[i].loads + 1 /\ w'[i].success_keys = <<>>) =>
                w'[i].pc = "done" /\ cat' = cat]_vars

\* after a conflict, the second attempt rejected every candidate and the
\* call returned without a write
C12_Witness ==
    \E i \in Writers :
        /\ w[i].pc = "done" /\ w[i].success_keys = <<>>
        /\ w[i].attempt = 1 /\ w[i].errors # <<>>

\* the conflicts invocation i has observed
Conflicts(i) == w[i].saves - w[i].puts

\* C13: a finished call has made one attempt more than the conflicts it
\* observed, at most 3, whatever the number of rejected candidates.
C13_AttemptsAreConflictsPlusOne ==
    \A i \in Writers :
        w[i].pc \in {"done", "raised"} =>
            w[i].loads = IF Conflicts(i) + 1 < MAX_RETRIES
                         THEN Conflicts(i) + 1 ELSE MAX_RETRIES

\* a call whose first save conflicted has committed in its second attempt,
\* in which it accepted one candidate and rejected the other for its
\* missing search results; the other call rejected its candidate for its
\* title
C13_Witness ==
    \E i, j \in Writers :
        /\ w[i].pc = "done" /\ w[i].puts = 1 /\ w[i].success_keys # <<>>
        /\ Conflicts(i) = 1 /\ w[i].loads = 2
        /\ \E e \in 1..Len(w[i].errors) : w[i].errors[e].reason = NoImages
        /\ w[j].pc = "done"
        /\ \E e \in 1..Len(w[j].errors) : w[j].errors[e].reason = DuplicateTitle

\* C14: a store fault on a load or a save ends the call at once with the
\* raise: the step of the fault makes no sleep and leaves the catalog as it
\* is, and after it the invocation makes no load, save or sleep and returns
\* no errors list.
C14_FaultRaisesImmediately ==
    /\ [](\A i \in Writers :
            w[i].faults > 0 =>
                w[i].pc = "faulted" /\ w[i].faults = 1 /\ w[i].errors = <<>>)
    /\ [][\A i \in Writers :
            /\ w'[i].faults # w[i].faults =>
                  /\ w'[i].pc = "faulted"
                  /\ w'[i].sleeps = w[i].sleeps
                  /\ w'[i].attempt = w[i].attempt
                  /\ w'[i].loads + w'[i].saves = w[i].loads + w[i].saves + 1
                  /\ cat' = cat
            /\ w[i].pc = "faulted" => w'[i] = w[i]]_vars

\* after a conflict with the other call's commit, a call raised at the save
\* of its second attempt
C14_Witness ==
    \E i, j \in Writers :
        /\ w[i].pc = "faulted" /\ w[i].attempt = 1 /\ w[i].saves = 2
        /\ w[i].loads = 2 /\ w[i].sleeps = 1 /\ w[i].puts = 0
        /\ w[j].pc = "done" /\ w[j].puts = 1

\* C15: a reload leaves the uploadedAt of a candidate stamped in an earlier
\* attempt as it was, so that a call that commits on its 2nd or 3rd attempt
\* stores the stamps of its first attempt.
C15_StampKeptAcrossRetries ==
    [][\A i \in Writers :
          (w[i].pc = "load" /\ w'[i].loads = w[i].loads + 1) =>
              \A p \in DOMAIN w'[i].position_to_key :
                  w[i].recipes[p + 1].uploadedAt # 0 =>
                      w'[i].existing_data[w'[i].position_to_key[p]].uploadedAt
                          = w[i].recipes[p + 1].uploadedAt]_vars

\* the entries of body under other keys than k are in body2, unchanged
OthersKept(body, body2, k) ==
    \A x \in (DOMAIN body) \ {k} : x \in DOMAIN body2 /\ body2[x] = body[x]

\* C16: with nothing else running every delete returns (True, None), also
\* for a key that is in neither document and when the documents do not
\* exist, and a delete of the key that the call before removed leaves the
\* content of both documents as it is.
C16_DeleteIdempotent ==
    /\ [](d.pc = "done" => d.ok /\ d.msg = "")
    /\ [][d'.repeat =>
            BodyOf(cat') = BodyOf(cat) /\ BodyOf(emb') = BodyOf(emb)]_vars

\* key "1" was deleted twice in a row from the catalog with the keys 1, 2, 5
C16_Witness ==
    /\ d.pc = "done" /\ d.ok /\ d.repeat /\ d.calls = 2 /\ d.recipe_key = "1"
    /\ DOMAIN cat.doc = {"2", "5"} /\ DOMAIN emb.doc = {"2", "5"}

\* C17: delete_recipe_atomic issues a save to a document only when the
\* document it loaded contained the key.
C17_SaveOnlyWhereKeyLoaded ==
    [][/\ d'.cat_puts # d.cat_puts => d.recipe_key \in DOMAIN d.combined_data
       /\ d'.emb_puts # d.emb_puts => d.recipe_key \in DOMAIN d.embeddings]_vars

\* no upload has given recipe_key to one of its candidates
KeyNotReassigned ==
    \A i \in Writers : \A j \in 1..Len(w[i].success_keys) :
        w[i].success_keys[j] # d.recipe_key

\* C18: when delete_recipe_atomic has returned, the key (which no upload
\* has assigned again) is in both documents or in neither.
C18_BothOrNeither ==
    (d.pc = "done" /\ KeyNotReassigned) =>
        (d.recipe_key \in DOMAIN BodyOf(cat) <=> d.recipe_key \in DOMAIN BodyOf(emb))

\* C19: after a delete that ran alone and returned (True, None) the key is
\* in neither document, and no step of the call adds an entry or removes or
\* changes an entry under another key.
C19_OnlyTheKeyRemoved ==
    /\ [](d.pc = "done" /\ d.ok =>
            /\ d.recipe_key \notin DOMAIN BodyOf(cat)
            /\ d.recipe_key \notin DOMAIN BodyOf(emb))
    /\ [][/\ OthersKept(BodyOf(cat), BodyOf(cat'), d'.recipe_key)
          /\ OthersKept(BodyOf(emb), BodyOf(emb'), d'.recipe_key)
          /\ DOMAIN BodyOf(cat') \subseteq DOMAIN BodyOf(cat)
          /\ DOMAIN BodyOf(emb') \subseteq DOMAIN BodyOf(emb)]_vars

\* key "1" was deleted from documents that keep the keys 2 and 5
C19_Witness ==
    /\ d.pc = "done" /\ d.ok /\ d.calls = 1 /\ d.recipe_key = "1"
    /\ cat.doc = [k \in {"2", "5"} |-> SparseDoc[k]]
    /\ emb.doc = [k \in {"2", "5"} |-> SparseIndex[k]]

\* C20: a conflict on either save leads to Step 1 of the next attempt
\* without a write; Step 1 and Step 2 take the document and the version
\* token of the catalog and of the embeddings from the store before the
\* next save is issued, and a call whose embeddings save is accepted returns
\* (True, None) in whichever attempt that is.
C20_ConflictRestartsWholeAttempt ==
    [][d' # d =>
        /\ d'.attempt # d.attempt =>
              /\ d.pc \in {"saveCat", "saveEmb"}
              /\ d'.attempt = d.attempt + 1
              /\ d'.pc = "loadCat"
              /\ cat' = cat /\ emb' = emb
        /\ d.pc = "loadCat" =>
              /\ d'.pc = "loadEmb"
              /\ d'.combined_data = BodyOf(cat)
              /\ d'.combined_data_etag = EtagOf(cat)
        /\ d.pc = "loadEmb" =>
              /\ d'.pc = "saveCat"
              /\ d'.embeddings = BodyOf(emb)
              /\ d'.embeddings_etag = EtagOf(emb)
        /\ d'.pc = "saveEmb" => d.pc = "saveCat" /\ d'.cat_puts = d.cat_puts + 1
        /\ (d.pc = "saveEmb" /\ PutAccepted(emb, d.embeddings_etag)) =>
              d'.pc = "done" /\ d'.ok /\ d'.emb_puts = d.emb_puts + 1]_vars

\* the embeddings save of the first attempt conflicted with a merge; the
\* second attempt saved both documents and the call returned (True, None)
C20_Witness ==
    /\ d.pc = "done" /\ d.ok /\ d.attempt = 1
    /\ d.cat_puts = 2 /\ d.emb_puts = 1
    /\ adder.pc = "done" /\ adder.result
    /\ d.recipe_key \notin DOMAIN cat.doc
    /\ d.recipe_key \notin DOMAIN emb.doc

\* C21: a delete that used up its 3 attempts on conflicts returns
\* (False, msg), msg naming the document whose save conflicted in the last
\* attempt, and the invocation has had no write applied to that document.
C21_ExhaustedNamesUncommittedDoc ==
    (d.pc = "done" /\ ~d.ok) =>
        /\ d.attempt = DEL_MAX_RETRIES - 1
        /\ \/ d.msg = "Max retries exceeded updating " \o CatalogName /\ d.cat_puts = 0
           \/ d.msg = "Max retries exceeded updating " \o IndexName /\ d.emb_puts = 0

\* C22: a save_embeddings call makes one put and no retry: when the store
\* accepts the condition the put is applied and the caller sees True, when
\* it reports PreconditionFailed nothing is applied and the caller sees
\* False (and goes on to its next attempt or gives up); any other error of
\* the store on a save or a load leaves the call as a raise with nothing
\* applied.  load_embeddings gives ({}, None) for an absent document.
C22_SaveOnePutLoadAbsentEmpty ==
    [][adder' # adder =>
        /\ (adder'.saves = adder.saves + 1 /\ adder'.faults = adder.faults) =>
              IF PutAccepted(emb, adder.etag)
              THEN /\ emb' = PutResult(emb, adder.merged_embeddings)
                   /\ adder'.puts = adder.puts + 1
                   /\ adder'.pc = "done" /\ adder'.result
              ELSE /\ emb' = emb
                   /\ adder'.puts = adder.puts
                   /\ adder'.pc = "load" \/ (adder'.pc = "done" /\ ~adder'.result)
        /\ adder'.faults # adder.faults =>
              /\ adder'.pc = "raised" /\ emb' = emb
              /\ adder.pc \in {"load", "save"} =>
                    /\ adder'.puts = adder.puts /\ adder'.sleeps = adder.sleeps
                    /\ adder'.attempt = adder.attempt
                    /\ adder'.loads + adder'.saves = adder.loads + adder.saves + 1
        /\ adder.pc = "raised" => FALSE
        /\ (adder'.pc = "save" /\ ~emb.exists) =>
              /\ adder'.etag = NoEtag
              /\ adder'.merged_embeddings = adder'.new_embeddings
        /\ (adder'.pc = "save" /\ emb.exists) =>
              /\ adder'.etag = EtagOf(emb)
              /\ adder'.merged_embeddings = Merge(emb.doc, adder'.new_embeddings)]_vars

\* a call returned True from its second save, the first having conflicted
C22_Witness ==
    /\ adder.pc = "done" /\ adder.result /\ adder.attempt = 1
    /\ adder.saves = 2 /\ adder.puts = 1
    /\ \A k \in DOMAIN adder.new_embeddings : k \in DOMAIN emb.doc

\* C23: add_embeddings loads before every save; it returns True at its
\* first accepted save, and False after exactly 3 conflicting saves, 3
\* loads and 2 sleeps.
C23_AddRetriesThreeSleepsTwo ==
    /\ (adder.pc = "save" => adder.loads = adder.saves + 1 /\ adder.puts = 0)
    /\ (adder.pc = "load" => adder.loads = adder.saves /\ adder.puts = 0)
    /\ (adder.pc = "done" /\ adder.result) =>
          /\ adder.puts = 1 /\ adder.loads = adder.saves
          /\ adder.saves = adder.attempt + 1 /\ adder.sleeps = adder.attempt
    /\ (adder.pc = "done" /\ ~adder.result) =>
          /\ adder.puts = 0
          /\ adder.saves = EMB_MAX_RETRIES /\ adder.loads = EMB_MAX_RETRIES
          /\ adder.sleeps = EMB_MAX_RETRIES - 1

\* a call returned False after three deletes had each written the index
\* between a load and the save that followed it
C23_Witness ==
    adder.pc = "done" /\ ~adder.result /\ adder.saves = 3 /\ d.calls = 3

\* C24: every write applied to the index keeps each entry it finds there,
\* other than the keys the writing operation merges (add_embeddings) or
\* deletes (delete_recipe_atomic).
C24_IndexWritesPreserveOthers ==
    [][emb' # emb =>
        IF adder' # adder
        THEN \A x \in (DOMAIN BodyOf(emb)) \ (DOMAIN adder.new_embeddings) :
                x \in DOMAIN BodyOf(emb') /\ BodyOf(emb')[x] = BodyOf(emb)[x]
        ELSE OthersKept(BodyOf(emb), BodyOf(emb'), d.recipe_key)]_vars

\* C25: every key of the embedding index is, or at some earlier time was,
\* a key of the catalog, and the upload handler hands to add_embeddings
\* only keys that its batch write returned in positionToKey.
C25_IndexKeysWereCatalogKeys ==
    /\ [](DOMAIN BodyOf(emb) \subseteq cat.ever)
    /\ [][\A i \in Writers :
            (w[i].pc = "done" /\ w'[i].pc = "embed") =>
                /\ w[i].puts = 1
                /\ DOMAIN a'[i].new_embeddings =
                      {w[i].position_to_key[p] : p \in DOMAIN w[i].position_to_key}
                /\ DOMAIN a'[i].new_embeddings \subseteq cat.ever]_vars

\* an upload stored the embedding of its recipe after a delete had removed
\* the recipe's key from the catalog
C25_Witness ==
    \E i \in Writers :
        /\ w[i].pc = "embed"
        /\ a[i].pc = "done" /\ a[i].result
        /\ \E k \in DOMAIN a[i].new_embeddings :
              k \in DOMAIN emb.doc /\ k \notin DOMAIN BodyOf(cat)

(***************************************************************************)
(* The duplicate detector.                                                 *)
(***************************************************************************)
Entries == 1..Len(dd.existing_embeddings)

SameLength(i) == Len(dd.existing_embeddings[i][2]) = Len(dd.new_embedding)

AllZero(vec) == \A j \in 1..Len(vec) : vec[j] = 0

\* the comparison went through: an index with entries, all of the length
\* of the query
Compared ==
    /\ dd.pc = "done"
    /\ Entries # {}
    /\ \A i \in Entries : SameLength(i)

\* entry i has the greatest cosine similarity to the query
IsBest(i) ==
    \A j \in Entries : ~Gt(dd.similarities[j].value, dd.similarities[i].value)

\* C26: is_duplicate answers (True, matched key, score) exactly when the
\* best similarity over the index is strictly greater than the threshold
\* (a best score equal to the threshold is no duplicate), and every other
\* answer is (False, None, best score).
C26_DuplicateIffBestAboveThreshold ==
    Compared =>
        \E i \in Entries :
            /\ IsBest(i)
            /\ dd.result.duplicate <=>
                  Gt(dd.similarities[i].value, SIMILARITY_THRESHOLD)
            /\ dd.result.score = dd.similarities[i].value
            /\ IF dd.result.duplicate
               THEN dd.result.key = dd.existing_embeddings[i][1]
               ELSE dd.result.key = None

\* C27: on a non-empty index find_most_similar returns the key of an entry
\* of maximum cosine similarity to the query, with that similarity.
C27_ReturnsArgMax ==
    Compared =>
        \E i \in Entries :
            /\ IsBest(i)
            /\ dd.found.key = dd.existing_embeddings[i][1]
            /\ dd.found.score = dd.similarities[i].value

\* C28: cosine_similarity raises ValueError on vectors of different
\* lengths before any arithmetic, zero vectors included, and the error
\* leaves find_most_similar and is_duplicate with no key or score; an
\* index without such an entry raises nothing.
C28_LengthMismatchRaises ==
    dd.pc = "done" =>
        /\ \A i \in Entries :
              /\ ~SameLength(i) => dd.similarities[i] = Raised("ValueError")
              /\ SameLength(i) => dd.similarities[i].kind = "ok"
        /\ IF \E i \in Entries : ~SameLength(i)
           THEN /\ dd.found = Found("ValueError", None, Zero)
                /\ dd.result = [kind |-> "ValueError", duplicate |-> FALSE,
                                key |-> None, score |-> Zero]
           ELSE dd.found.kind = "ok" /\ dd.result.kind = "ok"

\* an all-zero query met an entry of another length
C28_Witness ==
    /\ dd.pc = "done"
    /\ AllZero(dd.new_embedding)
    /\ \E i \in Entries : ~SameLength(i)
    /\ dd.result.kind = "ValueError"

\* C29: for vectors of equal length cosine_similarity returns 0.0, and
\* divides nothing, when either vector (or both) has magnitude zero.
C29_ZeroMagnitudeGivesZero ==
    dd.pc = "done" =>
        \A i \in Entries :
            (/\ SameLength(i)
             /\ \/ AllZero(dd.new_embedding)
                \/ AllZero(dd.existing_embeddings[i][2])) =>
                dd.similarities[i] = Returned(Zero, 0)

\* a zero entry was compared with a zero query and with a non-zero query
\* of its length
C29_Witness ==
    /\ dd.pc = "done"
    /\ Len(dd.existing_embeddings) = 2
    /\ AllZero(dd.new_embedding)
    /\ SameLength(1) /\ AllZero(dd.existing_embeddings[1][2])
    /\ SameLength(2) /\ ~AllZero(dd.existing_embeddings[2][2])
    /\ dd.result = [kind |-> "ok", duplicate |-> FALSE, key |-> None, score |-> Zero]

(***************************************************************************)
(* Version tokens.                                                         *)
(***************************************************************************)
\* etag is what a load of obj returns: its ETag, or None for NoSuchKey
TokenOfLoad(obj, etag) == etag = EtagOf(obj)

\* a put of the operation that holds etag: applied exactly when etag is
\* None (no IfMatch) or the current ETag of the document
PutCarries(obj, obj2, etag) == (obj2 # obj) <=> PutAccepted(obj, etag)

\* C30: every save of batch_to_s3_atomic, delete_recipe_atomic,
\* add_embeddings and the image update is conditional on the version token
\* that the load of the same attempt returned, and is unconditional only
\* when that load found no document.  An operation's record changes only
\* in its own steps, so the token it holds at a save is the one its last
\* load stored, and the attempt counter moves only after a save.
C30_SaveTokenFromSameAttemptLoad ==
    [][/\ \A i \in Writers :
            /\ (w[i].pc \in {"idle", "load"} /\ w'[i] # w[i]) =>
                  /\ w'[i].pc \in {"save", "done"}
                  /\ TokenOfLoad(cat, w'[i].etag)
                  /\ w[i].pc = "load" => w'[i].attempt = w[i].attempt
            /\ (w[i].pc = "save" /\ w'[i] # w[i]) =>
                  /\ PutCarries(cat, cat', w[i].etag)
                  /\ w'[i].pc = "load" => w'[i].attempt = w[i].attempt + 1
       /\ (d' # d /\ d'.pc = "loadEmb") =>
              TokenOfLoad(cat, d'.combined_data_etag)
       /\ (d.pc = "loadEmb" /\ d' # d) =>
              /\ d'.pc = "saveCat"
              /\ TokenOfLoad(emb, d'.embeddings_etag)
              /\ d'.combined_data_etag = d.combined_data_etag
              /\ d'.attempt = d.attempt
       /\ (d.pc = "saveCat" /\ d' # d) =>
              /\ PutCarries(cat, cat', d.combined_data_etag)
              /\ d'.pc = "saveEmb" =>
                    /\ d'.embeddings_etag = d.embeddings_etag
                    /\ d'.attempt = d.attempt
              /\ d'.pc = "loadCat" => d'.attempt = d.attempt + 1
       /\ (d.pc = "saveEmb" /\ d' # d) =>
              /\ PutCarries(emb, emb', d.embeddings_etag)
              /\ d'.pc = "loadCat" => d'.attempt = d.attempt + 1
       /\ (adder.pc \in {"idle", "done", "load"} /\ adder' # adder) =>
              /\ adder'.pc = "save"
              /\ TokenOfLoad(emb, adder'.etag)
              /\ adder.pc = "load" => adder'.attempt = adder.attempt
       /\ (adder.pc = "save" /\ adder' # adder) =>
              /\ PutCarries(emb, emb', adder.etag)
              /\ adder'.pc = "load" => adder'.attempt = adder.attempt + 1
       /\ (u.pc = "load" /\ u' # u /\ u'.pc = "save") =>
              /\ cat.exists /\ u'.etag = EtagOf(cat)
              /\ u'.attempt = u.attempt
       /\ (u.pc = "save" /\ u' # u) =>
              /\ u.etag # NoEtag
              /\ PutCarries(cat, cat', u.etag)
              /\ u'.pc = "load" => u'.attempt = u.attempt + 1]_vars

\* all four operations have saved; the upload, the delete and
\* add_embeddings in an attempt after their first, under the token of that
\* attempt's load
C30_Witness ==
    /\ w["w1"].pc = "done" /\ w["w1"].puts = 1 /\ w["w1"].attempt > 0
    /\ d.pc = "done" /\ d.ok /\ d.attempt > 0
    /\ adder.pc = "done" /\ adder.result /\ adder.attempt > 0
    /\ u.pc = "done" /\ u.status = 200 /\ u.puts = 1

(***************************************************************************)
(* The image update.                                                       *)
(***************************************************************************)
\* the step in which handle_post_image_request responds with status
UpdResponds(status) == u.pc # "done" /\ u'.pc = "done" /\ u'.status = status

\* C31: a successful image update writes the catalog it finds at its save
\* (the one its put is conditional on) with the image_url of its recipe
\* replaced and nothing else changed: what batch writes committed and
\* deletes removed since its load is still there.
C31_UpdateChangesOnlyImageUrl ==
    [][UpdResponds(200) =>
        /\ u.recipe_key \in DOMAIN BodyOf(cat)
        /\ BodyOf(cat') =
              [BodyOf(cat) EXCEPT ![u.recipe_key].image_url = u.image_url]]_vars

\* the update succeeded in a later attempt, after a batch write had
\* committed a recipe that is still in the catalog
C31_Witness ==
    /\ u.pc = "done" /\ u.status = 200 /\ u.attempt > 0
    /\ BodyOf(cat)[u.recipe_key].image_url = u.image_url
    /\ \E i \in Writers :
          /\ w[i].pc = "done" /\ w[i].puts = 1
          /\ \E p \in DOMAIN w[i].position_to_key :
                /\ w[i].position_to_key[p] \in DOMAIN BodyOf(cat)
                /\ w[i].position_to_key[p] # u.recipe_key

\* the recipe key of the update has left the catalog since the validation
\* found it there
KeyGone == u.pc \in {"load", "save"} /\ u.recipe_key \notin DOMAIN BodyOf(cat)

\* C32 as stated: when the handler responds after its key was deleted, the
\* response is 404 and the catalog is not written.
C32_DeletedKeyGets404 ==
    [][(KeyGone /\ u'.pc = "done") => (u'.status = 404 /\ cat' = cat)]_vars

\* C32: with its key gone from the catalog the handler writes nothing: a
\* load answers 404, a save is rejected and is followed by the next
\* attempt or, after the third, by 500; whatever the handler writes keeps
\* the keys of the catalog as they are, so no removed recipe comes back.
C32_DeletedKeyNeverWritten ==
    [][/\ (KeyGone /\ u' # u) =>
            /\ cat' = cat
            /\ u.pc = "load" => UpdResponds(404)
            /\ u.pc = "save" =>
                  IF u.attempt < IMG_MAX_RETRIES - 1
                  THEN u'.pc = "load" /\ u'.attempt = u.attempt + 1
                  ELSE UpdResponds(500)
       /\ (u' # u /\ cat' # cat) =>
            /\ u.recipe_key \in DOMAIN BodyOf(cat)
            /\ DOMAIN BodyOf(cat') = DOMAIN BodyOf(cat)]_vars

\* a delete removed the key between the load and the save of the update,
\* which then answered 404 from a later attempt
C32_Witness ==
    /\ u.pc = "done" /\ u.status = 404 /\ u.attempt > 0 /\ u.puts = 0
    /\ d.recipe_key = u.recipe_key /\ d.cat_puts > 0
    /\ u.recipe_key \notin DOMAIN BodyOf(cat)

\* C33: the URL that the image update writes for its key is one of the
\* image_search_results of the recipe stored under that key in the written
\* document.
C33_WrittenUrlIsSearchResult ==
    [][UpdResponds(200) =>
        InSeq(u.image_url,
              BodyOf(cat')[u.recipe_key].image_search_results)]_vars

(***************************************************************************)
(* The responses of the upload handler.                                    *)
(***************************************************************************)
\* the keys of newRecipeKeys in the response of upload i
NewRecipeKeys(i) == {w[i].success_keys[j] : j \in 1..Len(w[i].success_keys)}

\* C34: when the upload handler answers 200, the embedding of every key
\* of newRecipeKeys has been stored in the embedding index: add_embeddings
\* has saved them, whatever other writers did to the index meanwhile.
C34_ListedKeysHaveEmbeddings ==
    [][\A i \in Writers :
        (/\ w[i].pc # "responded" /\ w'[i].pc = "responded"
         /\ w'[i].status = 200 /\ NewRecipeKeys(i) # {}) =>
            /\ a[i].pc = "done" /\ a[i].result
            /\ NewRecipeKeys(i) \subseteq emb.ever]_vars

\* C35: when the upload handler answers 500 'Batch upload failed', none
\* of the recipes of the request has been committed to the catalog.
C35_FailedUploadCommittedNothing ==
    \A i \in Writers :
        (w[i].pc = "responded" /\ w[i].status = 500) => w[i].puts = 0

(***************************************************************************)
(* Deletes among other writers.                                            *)
(***************************************************************************)
\* C36: a write of delete_recipe_atomic(k), to the catalog or to the
\* index, keeps every entry that the document holds under another key,
\* whatever batch writes and merges were committed since the delete loaded
\* the document, and also when the load found no document.
C36_DeleteKeepsOtherEntries ==
    [][(d.pc \in {"saveCat", "saveEmb"} /\ d' # d) =>
        /\ OthersKept(BodyOf(cat), BodyOf(cat'), d.recipe_key)
        /\ OthersKept(BodyOf(emb), BodyOf(emb'), d.recipe_key)]_vars

\* C37: a delete of k that failed with k out of the catalog and still in
\* the index is followed by a delete of k that meets no conflict: that
\* call returns (True, None) and k is in neither document.
C37_RepeatedDeleteConverges ==
    [][(d.gap /\ d.attempt = 0 /\ d.pc = "saveEmb" /\ d'.pc = "done") =>
        /\ d'.ok /\ d'.msg = ""
        /\ d.recipe_key \notin DOMAIN BodyOf(cat')
        /\ d.recipe_key \notin DOMAIN BodyOf(emb')]_vars

\* the first delete gave up at the index after three conflicts with
\* add_embeddings, the second went through in its first attempt
C37_Witness ==
    /\ d.pc = "done" /\ d.gap /\ d.ok /\ d.attempt = 0 /\ d.calls = 2
    /\ d.cat_puts = 1 /\ d.emb_puts = 1
    /\ d.recipe_key \notin DOMAIN BodyOf(cat)
    /\ d.recipe_key \notin DOMAIN BodyOf(emb)

(***************************************************************************)
(* Termination.                                                            *)
(***************************************************************************)
WriterEnded == w["w1"].pc \in {"done", "raised", "faulted"}
DeleterEnded == d.pc = "done"
AdderEnded == adder.pc \in {"done", "raised"}
UpdaterEnded == u.pc \in {"done", "raised"}

\* at most MAX_RETRIES attempts, loads and saves, and one sleep before
\* every attempt but the first
LoopsBounded ==
    /\ w["w1"].attempt < MAX_RETRIES /\ w["w1"].sleeps = w["w1"].attempt
    /\ w["w1"].loads <= MAX_RETRIES /\ w["w1"].saves <= MAX_RETRIES
    /\ d.attempt < DEL_MAX_RETRIES /\ d.sleeps = d.attempt
    /\ d.cat_puts <= DEL_MAX_RETRIES /\ d.emb_puts <= 1
    /\ adder.attempt < EMB_MAX_RETRIES /\ adder.sleeps = adder.attempt
    /\ adder.loads <= EMB_MAX_RETRIES /\ adder.saves <= EMB_MAX_RETRIES
    /\ u.attempt < IMG_MAX_RETRIES /\ u.sleeps = u.attempt
    /\ u.puts <= 1

\* a step that sleeps is a rejected save that is followed by a new
\* attempt, and a call that has ended takes no further step
SleepsOnlyBetweenAttempts ==
    /\ w'["w1"].sleeps # w["w1"].sleeps =>
          w["w1"].pc = "save" /\ w'["w1"].pc = "load" /\ cat' = cat
    /\ d'.sleeps # d.sleeps =>
          d.pc \in {"saveCat", "saveEmb"} /\ d'.pc = "loadCat"
          /\ cat' = cat /\ emb' = emb
    /\ adder'.sleeps # adder.sleeps =>
          adder.pc = "save" /\ adder'.pc = "load" /\ emb' = emb
    /\ u'.sleeps # u.sleeps =>
          u.pc = "save" /\ u'.pc = "load" /\ cat' = cat
    /\ WriterEnded => w' = w
    /\ DeleterEnded => d' = d
    /\ AdderEnded => adder' = adder
    /\ UpdaterEnded => u' = u

\* the steps a retry loop can still take: two per attempt left (load and
\* save), one more before the call
StepsLeft(pc, attempt, max) ==
    CASE pc = "idle" -> 2 * max + 1
      [] pc = "load" -> 2 * (max - attempt)
      [] pc = "save" -> 2 * (max - attempt) - 1
      [] OTHER -> 0

\* the same for the delete, with two loads and two saves per attempt
DelStepsLeft ==
    CASE d.pc = "idle" -> 4 * DEL_MAX_RETRIES + 1
      [] d.pc = "loadCat" -> 4 * (DEL_MAX_RETRIES - d.attempt)
      [] d.pc = "loadEmb" -> 4 * (DEL_MAX_RETRIES - d.attempt) - 1
      [] d.pc = "saveCat" -> 4 * (DEL_MAX_RETRIES - d.attempt) - 2
      [] d.pc = "saveEmb" -> 4 * (DEL_MAX_RETRIES - d.attempt) - 3
      [] OTHER -> 0

\* every step of an operation uses up one of the steps it has left
StepsRunOut ==
    /\ w' # w => StepsLeft(w'["w1"].pc, w'["w1"].attempt, MAX_RETRIES)
                    < StepsLeft(w["w1"].pc, w["w1"].attempt, MAX_RETRIES)
    /\ d' # d => DelStepsLeft' < DelStepsLeft
    /\ adder' # adder => StepsLeft(adder'.pc, adder'.attempt, EMB_MAX_RETRIES)
                    < StepsLeft(adder.pc, adder.attempt, EMB_MAX_RETRIES)
    /\ u' # u => StepsLeft(u'.pc, u'.attempt, IMG_MAX_RETRIES)
                    < StepsLeft(u.pc, u.attempt, IMG_MAX_RETRIES)

\* an operation that has not ended can take a step, whatever the others
\* have done to the store
NeverStuck ==
    /\ ~WriterEnded => ENABLED WriterStep
    /\ ~DeleterEnded => ENABLED DeleterStep
    /\ ~AdderEnded => ENABLED AdderStep
    /\ ~UpdaterEnded => ENABLED UpdaterStep

====
